---- MODULE Spec2Model ----
(***************************************************************************)
(* A model of kvgit: a commit log over a flat byte KV store                *)
(* (src/kvgit/versioned.py) and its garbage collector (src/gitkv/gc.py).   *)
(*                                                                         *)
(* The backend is the in-memory store, whose every operation runs under    *)
(* one lock: each backend call is one atomic step.  A view operation that  *)
(* makes several backend calls is split at the calls that other views can  *)
(* observe (the batch write of a commit, the CAS of a branch head, the     *)
(* removals of rebase and of the orphan sweep); the position of each view  *)
(* inside its operation is views[v].pc.                                    *)
(*                                                                         *)
(* Byte strings are abstracted as positive integers; the length of the     *)
(* byte string v is ByteLen(v).  A commit id is the index of the hash      *)
(* input in the table store.hashes: equal inputs give equal ids and        *)
(* different inputs give different ids (a collision-free content hash).    *)
(***************************************************************************)
EXTENDS Integers, Sequences, FiniteSets, TLC

VARIABLES store, views, now

vars == <<store, views, now>>

(***************************************************************************)
(* Bounds of the model                                                     *)
(***************************************************************************)
\* no more than this many commit ids are ever computed
MaxCommits == 4
\* the clock ticks at most this many times
MaxTicks == 1
MaxTouch == 3

(***************************************************************************)
(* Input domains                                                           *)
(***************************************************************************)
AllViews == {"v1", "v2", "v3"}
Branches == {"main", "dev"}
Keys == {"a", "b", "__p"}
\* iteration order of the callers' dicts
KeyOrder == <<"__p", "a", "b">>
Values == {1, 2}

\* counter(encoding, byte_length): val.to_bytes(byte_length, signed=True) and
\* int.from_bytes(raw, signed=True).  The byte strings from CounterBase on
\* are the two's complement encodings: CounterBase + u stands for the
\* byte_length bytes whose unsigned value is u.
CounterBase == 1000
byte_length == 1
Modulus == 2 ^ (8 * byte_length)
Encodable(val) == -(Modulus \div 2) <= val /\ val < Modulus \div 2
encode(val) == CounterBase + (val % Modulus)
decode(raw) ==
  IF raw - CounterBase >= Modulus \div 2 THEN raw - CounterBase - Modulus
  ELSE raw - CounterBase

\* len(value)
ByteLen(v) == IF v >= CounterBase THEN byte_length ELSE v

\* None, for a commit id, and the commit id of the "<pending:key>" sentinel
NoCommit == 0
Pending == 0
NoInfo == 0
EmptyFn == [k \in {} |-> 0]

\* the element of a one-element set.  The({e : x \in {d}}) is e with x
\* standing for the value of d, evaluated once
The(S) == CHOOSE x \in S : TRUE

\* the default is_protected policy: the last path segment starts with "__"
_is_system_key(key) == key \in {"__p"}

Max(S) == CHOOSE x \in S : \A y \in S : y <= x

RECURSIVE SumOver(_, _)
SumOver(f, S) ==
  IF S = {} THEN 0
  ELSE LET k == CHOOSE x \in S : TRUE IN f[k] + SumOver(f, S \ {k})

\* the position of a key in the iteration order
Rank(k) == CHOOSE i \in 1..Len(KeyOrder) : KeyOrder[i] = k

\* the number of keys of S that come before k, plus one
Nth(k, S) == Cardinality({x \in S : Rank(x) <= Rank(k)})

(***************************************************************************)
(* The backend records                                                     *)
(*   store.head[b]   __branch_head__<b>, NoCommit when absent              *)
(*   store.recs[c]   __commit_keyset__, __parent_commit__, __meta__,       *)
(*                   __total_var_size__ and __info__ of commit c: written  *)
(*                   by one set_many and removed by one remove_many        *)
(*   store.blobs[p]  the blob under pointer p = <<commit id, user key>>    *)
(*                   (order and morder are the orders of the keys in the   *)
(*                   stored keyset and in the stored meta)                 *)
(*   store.hashes    the inputs hashed so far (commit id = index)          *)
(*   store.ctime[c]  (history) the time of the first batch write of c      *)
(***************************************************************************)
MetaEntry(last_touch, size, created_at) ==
  [last_touch |-> last_touch, size |-> size, created_at |-> created_at]

_content_hash(hashes, parents, keyset, updates, info) ==
  LET input == [parents |-> parents, keyset |-> keyset,
                updates |-> updates, info |-> info]
  IN IF \E i \in 1..Len(hashes) : hashes[i] = input
     THEN [id |-> CHOOSE i \in 1..Len(hashes) : hashes[i] = input,
           hashes |-> hashes]
     ELSE [id |-> Len(hashes) + 1, hashes |-> Append(hashes, input)]

\* dict.update: g's entries over f's
Update(f, g) ==
  [k \in DOMAIN f \cup DOMAIN g |-> IF k \in DOMAIN g THEN g[k] ELSE f[k]]

Restrict(f, S) == [k \in S |-> f[k]]

\* store.set_many of one commit's records and its new blobs
WriteCommit(st, id, hashes, keyset, order, parents, meta, morder, total, info, newblobs, t) ==
  [st EXCEPT
     !.recs = Update(@, [c \in {id} |->
                [keyset |-> keyset, order |-> order, parents |-> parents,
                 meta |-> meta, morder |-> morder, total |-> total,
                 info |-> info]]),
     !.blobs = Update(@, newblobs),
     !.hashes = hashes,
     !.ctime = IF id \in DOMAIN @ THEN @ ELSE Update(@, [c \in {id} |-> t])]

\* the keys of S in the order they have in the sequence seq
Sorted(seq, S) == SelectSeq(seq, LAMBDA k : k \in S)

\* the position of key k in the sequence seq
PosIn(seq, k) == CHOOSE i \in 1..Len(seq) : seq[i] = k

_load_keyset(st, c) ==
  IF c \in DOMAIN st.recs THEN st.recs[c].keyset ELSE EmptyFn

_load_parents(st, c) ==
  IF c \in DOMAIN st.recs THEN st.recs[c].parents ELSE <<>>

\* the order of the keys in the stored keyset, and in the stored meta
LoadOrder(st, c) ==
  IF c \in DOMAIN st.recs THEN st.recs[c].order ELSE <<>>

LoadMetaOrder(st, c) ==
  IF c \in DOMAIN st.recs THEN st.recs[c].morder ELSE <<>>

\* store.get(META_KEY % c), {} when absent
LoadMeta(st, c) ==
  IF c \in DOMAIN st.recs THEN st.recs[c].meta ELSE EmptyFn

\* store.get of a blob pointer: 0 stands for None
GetBlob(st, p) == IF p \in DOMAIN st.blobs THEN st.blobs[p] ELSE 0

TouchCounterOf(meta) ==
  IF DOMAIN meta = {} THEN 0
  ELSE Max({meta[k].last_touch : k \in DOMAIN meta})

(***************************************************************************)
(* Versioned._create_commit                                                *)
(***************************************************************************)
_create_commit(st, vw, updates, removals, info, t) ==
  The({
    The({
      The({
        [st |-> WriteCommit(st, h.id, h.hashes, new_commit_keys, order,
                            <<vw.cur>>, new_meta, morder,
                            SumOver([k \in DOMAIN new_meta |-> new_meta[k].size],
                                    DOMAIN new_meta),
                            info,
                            [p \in {<<h.id, k>> : k \in DOMAIN updates} |->
                               updates[p[2]]],
                            t),
         vw |-> [vw EXCEPT !.keys = new_commit_keys, !.order = order,
                           !.cur = h.id, !.meta = new_meta,
                           !.morder = morder,
                           !.touch = @ + Cardinality(fresh)]]
        : new_commit_keys \in
            {[k \in carried \cup DOMAIN updates |->
                IF k \in DOMAIN updates THEN <<h.id, k>> ELSE vw.keys[k]]},
          new_meta \in
            {[k \in DOMAIN kept_meta \cup DOMAIN updates |->
                IF k \notin DOMAIN updates THEN kept_meta[k]
                ELSE IF k \in DOMAIN kept_meta
                THEN MetaEntry(kept_meta[k].last_touch, ByteLen(updates[k]),
                               kept_meta[k].created_at)
                ELSE MetaEntry(vw.touch + Nth(k, fresh), ByteLen(updates[k]),
                               t)]},
          order \in {Sorted(vw.order, carried)
                       \o Sorted(KeyOrder, DOMAIN updates \ carried)},
          morder \in {Sorted(vw.order, DOMAIN kept_meta)
                        \o Sorted(KeyOrder, fresh)}})
      : h \in {_content_hash(st.hashes, <<vw.cur>>,
                             [k \in carried \cup DOMAIN updates |->
                                IF k \in DOMAIN updates THEN <<Pending, k>>
                                ELSE vw.keys[k]],
                             updates, info)},
        fresh \in {DOMAIN updates \ DOMAIN kept_meta}})
    : carried \in {{k \in DOMAIN vw.keys : k \notin removals}},
      kept_meta \in {Restrict(vw.meta, {k \in DOMAIN vw.keys \cap DOMAIN vw.meta :
                                          k \notin removals})}})

(***************************************************************************)
(* Versioned.diff                                                          *)
(***************************************************************************)
diff(st, commit_a, commit_b) ==
  LET keyset_a == _load_keyset(st, commit_a)
      keyset_b == _load_keyset(st, commit_b)
      keys_a == DOMAIN keyset_a
      keys_b == DOMAIN keyset_b
  IN [added |-> keys_b \ keys_a,
      removed |-> keys_a \ keys_b,
      modified |-> {k \in keys_a \cap keys_b : keyset_a[k] # keyset_b[k]}]

(***************************************************************************)
(* Versioned._find_lca: interleaved breadth-first search from both commits *)
(***************************************************************************)
\* the loop over the parents of one popped commit: found # NoCommit is the
\* early return
RECURSIVE ScanParents(_, _, _, _, _)
ScanParents(ps, i, seen, queue, other) ==
  IF i > Len(ps) THEN [seen |-> seen, queue |-> queue, found |-> NoCommit]
  ELSE IF ps[i] \in seen THEN ScanParents(ps, i + 1, seen, queue, other)
  ELSE IF ps[i] \in other
  THEN [seen |-> seen \cup {ps[i]}, queue |-> Append(queue, ps[i]),
        found |-> ps[i]]
  ELSE ScanParents(ps, i + 1, seen \cup {ps[i]}, Append(queue, ps[i]), other)

RECURSIVE LcaLoop(_, _, _, _, _)
LcaLoop(st, seen_a, seen_b, queue_a, queue_b) ==
  IF queue_a = <<>> /\ queue_b = <<>> THEN NoCommit
  ELSE
    LET ra == IF queue_a = <<>>
              THEN [seen |-> seen_a, queue |-> queue_a, found |-> NoCommit]
              ELSE IF Head(queue_a) \in seen_b
              THEN [seen |-> seen_a, queue |-> Tail(queue_a),
                    found |-> Head(queue_a)]
              ELSE ScanParents(_load_parents(st, Head(queue_a)), 1, seen_a,
                               Tail(queue_a), seen_b)
    IN IF ra.found # NoCommit THEN ra.found
       ELSE
         LET rb == IF queue_b = <<>>
                   THEN [seen |-> seen_b, queue |-> queue_b, found |-> NoCommit]
                   ELSE IF Head(queue_b) \in ra.seen
                   THEN [seen |-> seen_b, queue |-> Tail(queue_b),
                         found |-> Head(queue_b)]
                   ELSE ScanParents(_load_parents(st, Head(queue_b)), 1, seen_b,
                                    Tail(queue_b), ra.seen)
         IN IF rb.found # NoCommit THEN rb.found
            ELSE LcaLoop(st, ra.seen, rb.seen, ra.queue, rb.queue)

\* _find_lca taking the second commit itself for the common ancestor
FindLcaSecond(st, commit_a, commit_b) == commit_b

\* _find_lca that gives up at once when the two commits differ
FindLcaNone(st, commit_a, commit_b) == IF commit_a = commit_b THEN commit_a ELSE NoCommit

_find_lca(st, commit_a, commit_b) ==
  IF commit_a = commit_b THEN commit_a
  ELSE LcaLoop(st, {commit_a}, {commit_b}, <<commit_a>>, <<commit_b>>)

(***************************************************************************)
(* Merge functions: (old, ours, theirs) -> bytes, None being 0.            *)
(*   "lww"    last_writer_wins().as_merge_fn(): returns theirs             *)
(*   "counter" counter().as_merge_fn(): ours + theirs - old                *)
(*   "raise"  a caller's function that raises                              *)
(***************************************************************************)
NoFn == "none"
MergeFns == {"lww", "raise"}

\* ApplyFn with the raising function's exception swallowed
ApplyFnQuiet(fn, old_val, our_val, their_val) ==
  [ok |-> TRUE, val |-> their_val]

\* counter().merge on decoded values; has_old is "old is not None"
CounterMerge(has_old, old, ours, theirs) ==
  ours + theirs - (IF has_old THEN old ELSE 0)

\* counter().as_merge_fn(): decode what is not None, merge, encode.  With
\* ours or theirs None the sum raises TypeError, and a sum out of range
\* raises OverflowError in to_bytes.
CounterFn(old_val, our_val, their_val) ==
  IF our_val = 0 \/ their_val = 0 THEN [ok |-> FALSE, val |-> 0]
  ELSE The({IF Encodable(m) THEN [ok |-> TRUE, val |-> encode(m)]
            ELSE [ok |-> FALSE, val |-> 0]
            : m \in {CounterMerge(old_val # 0,
                                  IF old_val # 0 THEN decode(old_val) ELSE 0,
                                  decode(our_val), decode(their_val))}})

ApplyFn(fn, old_val, our_val, their_val) ==
  IF fn = "lww" THEN [ok |-> TRUE, val |-> their_val]
  ELSE IF fn = "counter" THEN CounterFn(old_val, our_val, their_val)
  ELSE [ok |-> FALSE, val |-> 0]


(***************************************************************************)
(* Versioned._three_way_merge up to and including the batch write of the   *)
(* merge commit.  fns[k] is the merge function in effect for key k; perm   *)
(* is the order in which this process iterates a set of keys.              *)
(*   kind "nolca"      no common ancestor                                  *)
(*   kind "conflict"   MergeConflict(conflicts, merge_errors)              *)
(*   kind "typeerror"  a merge function returned None: _content_hash       *)
(*                     raises on h.update(None)                            *)
(*   kind "written"    the merge commit is stored; the CAS comes next      *)
(***************************************************************************)
\* the classification of the keys of the two sides
MergeClassify(st, lca, ours, their_head) ==
  The({
    The({
      [lca_keyset |-> _load_keyset(st, lca),
       our_keyset |-> our_keyset,
       their_keyset |-> their_keyset,
       our_removed |-> our_diff.removed,
       their_removed |-> their_diff.removed,
       unchanged |-> (DOMAIN our_keyset \cup DOMAIN their_keyset)
                       \ (our_changed \cup their_changed),
       only_ours |-> (our_changed \ their_changed) \ our_diff.removed,
       only_theirs |-> (their_changed \ our_changed) \ their_diff.removed,
       same_change |-> {k \in our_changed \cap their_changed :
                          /\ k \notin our_diff.removed
                          /\ k \notin their_diff.removed
                          /\ our_keyset[k] = their_keyset[k]},
       to_resolve |-> {k \in our_changed \cap their_changed :
                         /\ ~(k \in our_diff.removed /\ k \in their_diff.removed)
                         /\ ~(/\ k \notin our_diff.removed
                              /\ k \notin their_diff.removed
                              /\ our_keyset[k] = their_keyset[k])}]
      : our_changed \in
          {our_diff.added \cup our_diff.removed \cup our_diff.modified},
        their_changed \in
          {their_diff.added \cup their_diff.removed \cup their_diff.modified}})
    : our_diff \in {diff(st, lca, ours)},
      their_diff \in {diff(st, lca, their_head)},
      our_keyset \in {_load_keyset(st, ours)},
      their_keyset \in {_load_keyset(st, their_head)}})

\* the contested keys: the merge function of each is called, if it has one
MergeResolve(st, c, fns) ==
  The({
    [conflicts |-> {k \in c.to_resolve : fns[k] = NoFn \/ ~result[k].ok},
     merge_errors |-> {k \in c.to_resolve : fns[k] # NoFn /\ ~result[k].ok},
     merged_values |-> [k \in {x \in c.to_resolve :
                                 fns[x] # NoFn /\ result[x].ok} |->
                          result[k].val]]
    : result \in
        {[k \in c.to_resolve |->
            ApplyFn(fns[k],
                    IF k \in DOMAIN c.lca_keyset
                    THEN GetBlob(st, c.lca_keyset[k]) ELSE 0,
                    IF k \in c.our_removed THEN 0
                    ELSE GetBlob(st, c.our_keyset[k]),
                    IF k \in c.their_removed THEN 0
                    ELSE GetBlob(st, c.their_keyset[k]))]}})

\* the merge commit: its keyset, its meta, its batch write
MergeBuild(st, vw, their_head, perm, info, t, lca, c, merged_values) ==
  The({
    The({
      The({
        [kind |-> "written",
         st |-> WriteCommit(st, h.id, h.hashes, merged_keyset, order,
                            <<their_head, vw.cur>>, merged_meta,
                            Sorted(order, DOMAIN merged_meta),
                            SumOver([k \in DOMAIN merged_meta |->
                                       merged_meta[k].size],
                                    DOMAIN merged_meta),
                            info,
                            [p \in {<<h.id, k>> : k \in DOMAIN merged_values} |->
                               merged_values[p[2]]],
                            t),
         lca |-> lca, conflicts |-> {}, merge_errors |-> {},
         to_resolve |-> c.to_resolve,
         auto_merged |-> c.only_ours \cup DOMAIN merged_values,
         merge_hash |-> h.id, merged_keyset |-> merged_keyset,
         order |-> order, merged_meta |-> merged_meta,
         touch |-> vw.touch + Cardinality(DOMAIN merged_values)]
        : merged_keyset \in
            {Update(carried_keyset,
                    [k \in DOMAIN merged_values |-> <<h.id, k>>])},
          merged_meta \in
            {[k \in {x \in DOMAIN carried_keyset \cup DOMAIN merged_values :
                       \/ x \in DOMAIN merged_values
                       \/ x \in DOMAIN our_meta
                       \/ x \in DOMAIN their_meta} |->
                IF k \in DOMAIN merged_values
                THEN MetaEntry(vw.touch
                                 + PosIn(Sorted(perm, DOMAIN merged_values), k),
                               ByteLen(merged_values[k]), t)
                ELSE IF k \in DOMAIN our_meta THEN our_meta[k]
                ELSE their_meta[k]]}})
      : h \in {_content_hash(st.hashes, <<their_head, vw.cur>>,
                             Update(carried_keyset,
                                    [k \in DOMAIN merged_values |->
                                       <<Pending, k>>]),
                             merged_values, info)}})
    : carried_keyset \in
        {[k \in c.unchanged \cup c.only_ours \cup c.only_theirs
                  \cup c.same_change |->
            IF k \in c.only_ours THEN c.our_keyset[k]
            ELSE IF k \in DOMAIN c.their_keyset THEN c.their_keyset[k]
            ELSE c.our_keyset[k]]},
      order \in {Sorted(perm, c.unchanged) \o Sorted(perm, c.only_ours)
                   \o Sorted(perm, c.only_theirs)
                   \o Sorted(perm, c.same_change)
                   \o Sorted(perm, DOMAIN merged_values)},
      our_meta \in {LoadMeta(st, vw.cur)},
      their_meta \in {LoadMeta(st, their_head)}})

\* the outcome of a merge that writes nothing
NoMerge(kind, st, vw, lca) ==
  [kind |-> kind, st |-> st, lca |-> lca, conflicts |-> {},
   merge_errors |-> {}, to_resolve |-> {}, auto_merged |-> {},
   merge_hash |-> NoCommit, merged_keyset |-> EmptyFn, order |-> <<>>,
   merged_meta |-> EmptyFn, touch |-> vw.touch]

_three_way_merge(st, vw, their_head, fns, perm, info, t) ==
  The({
    IF lca = NoCommit THEN NoMerge("nolca", st, vw, lca)
    ELSE
      The({
        The({
          IF r.conflicts # {}
          THEN [NoMerge("conflict", st, vw, lca)
                  EXCEPT !.conflicts = r.conflicts,
                         !.merge_errors = r.merge_errors,
                         !.to_resolve = c.to_resolve]
          ELSE IF \E k \in DOMAIN r.merged_values : r.merged_values[k] = 0
          THEN [NoMerge("typeerror", st, vw, lca)
                  EXCEPT !.to_resolve = c.to_resolve]
          ELSE MergeBuild(st, vw, their_head, perm, info, t, lca, c,
                          r.merged_values)
          : r \in {MergeResolve(st, c, fns)}})
        : c \in {MergeClassify(st, lca, vw.cur, their_head)}})
    : lca \in {_find_lca(st, vw.cur, their_head)}})

(***************************************************************************)
(* A view: the in-memory state of one Versioned (or GCVersioned) object    *)
(*   cur, base, keys, meta, touch   _current_commit, _base_commit,         *)
(*                                  _commit_keys, _meta, _touch_counter    *)
(*   merge_fns, default_merge       the merge function registry            *)
(*   pc                             the position inside the operation      *)
(*   saved, info, their, mh, mk, mm, name, target, ...                     *)
(*                                  locals of that operation               *)
(*   entry                          (history) the state at commit() entry, *)
(*                                  the keys of its updates, its removals  *)
(*   res                            the outcome the last operation         *)
(*                                  returned or raised (pc "idle"), or the *)
(*                                  MergeResult GCVersioned.commit holds;  *)
(*                                  its fields base0, ours and theirs are  *)
(*                                  history: base_commit at entry, the     *)
(*                                  local commit, the head commit() read   *)
(*   lookups, call                  (history) the merge function the last  *)
(*                                  merge looked up for each contested     *)
(*                                  key, and the arguments it was given    *)
(*   rewrote                        (history) the batch write of the       *)
(*                                  rebase under way changed a record or a *)
(*                                  blob the store already held            *)
(***************************************************************************)
NoSaved == [cur |-> NoCommit, keys |-> EmptyFn, order |-> <<>>,
            meta |-> EmptyFn, morder |-> <<>>, touch |-> 0]
NoEntry == [cur |-> NoCommit, base |-> NoCommit, keys |-> EmptyFn,
            order |-> <<>>, meta |-> EmptyFn, morder |-> <<>>, touch |-> 0,
            head |-> NoCommit, updated |-> {}, removals |-> {}]

Res(op, kind, strategy, commit) ==
  [op |-> op, kind |-> kind, strategy |-> strategy, commit |-> commit,
   on_conflict |-> "raise", conflicts |-> {}, merge_errors |-> {},
   auto_merged |-> {}, dropped_keys |-> {}, kept_keys |-> {},
   base0 |-> NoCommit, ours |-> NoCommit, theirs |-> NoCommit]

NoRes == Res("none", "none", "none", NoCommit)

\* (history) the merge_fns entries for the contested keys and the
\* default_merge that the last merge of a view was called with
NoCall == [merge_fns |-> EmptyFn, default_merge |-> NoFn]

CallOf(merge_fns, default_merge, contested) ==
  IF contested = {} THEN NoCall
  ELSE [merge_fns |-> Restrict(merge_fns, contested \cap DOMAIN merge_fns),
        default_merge |-> default_merge]

ClosedView ==
  [open |-> FALSE, gc |-> FALSE, branch |-> "main", cur |-> NoCommit,
   base |-> NoCommit, keys |-> EmptyFn, order |-> <<>>, meta |-> EmptyFn,
   morder |-> <<>>, touch |-> 0, merge_fns |-> EmptyFn, default_merge |-> NoFn,
   pc |-> "idle", saved |-> NoSaved, entry |-> NoEntry,
   info |-> NoInfo, their |-> NoCommit, mh |-> NoCommit, mk |-> EmptyFn,
   mo |-> <<>>, mm |-> EmptyFn, mauto |-> {}, dropped |-> {}, kept |-> {},
   reachable |-> {}, min_age |-> 0, in_rebase |-> FALSE, res |-> NoRes,
   lookups |-> EmptyFn, call |-> NoCall, rewrote |-> FALSE,
   name |-> "none", target |-> NoCommit]

\* the operation is over: its locals are dropped and its outcome is res
Returned(vw, res) ==
  [vw EXCEPT !.pc = "idle", !.saved = NoSaved, !.entry = NoEntry,
             !.info = NoInfo, !.their = NoCommit,
             !.mh = NoCommit, !.mk = EmptyFn, !.mo = <<>>, !.mm = EmptyFn,
             !.mauto = {},
             !.dropped = {}, !.kept = {}, !.reachable = {}, !.min_age = 0,
             !.in_rebase = FALSE, !.rewrote = FALSE, !.name = "none",
             !.target = NoCommit, !.res = res]

\* a view that can start an operation
Ready(vw) == vw.open /\ vw.pc = "idle"

_snapshot_state(vw) ==
  [cur |-> vw.cur, keys |-> vw.keys, order |-> vw.order, meta |-> vw.meta,
   morder |-> vw.morder, touch |-> vw.touch]

\* _restore_state that puts back the commit and the keyset only
RestoreCommitOnly(vw, saved) ==
  [vw EXCEPT !.cur = saved.cur, !.keys = saved.keys, !.order = saved.order]

_restore_state(vw, saved) ==
  [vw EXCEPT !.cur = saved.cur, !.keys = saved.keys, !.order = saved.order,
             !.meta = saved.meta, !.morder = saved.morder,
             !.touch = saved.touch]

\* Versioned._load_commit(commit_hash, update_base=True)
_load_commit(st, vw, commit_hash) ==
  [vw EXCEPT !.cur = commit_hash, !.base = commit_hash,
             !.keys = _load_keyset(st, commit_hash),
             !.order = LoadOrder(st, commit_hash),
             !.morder = LoadMetaOrder(st, commit_hash),
             !.meta = LoadMeta(st, commit_hash),
             !.touch = TouchCounterOf(LoadMeta(st, commit_hash))]

\* Versioned.set_merge_fn and Versioned.set_default_merge
set_merge_fn(vw, key, fn) ==
  [vw EXCEPT !.merge_fns = Update(@, [k \in {key} |-> fn])]

set_default_merge(vw, fn) == [vw EXCEPT !.default_merge = fn]

EmptyStore ==
  [head |-> [b \in Branches |-> NoCommit], recs |-> EmptyFn,
   blobs |-> EmptyFn, hashes |-> <<>>, ctime |-> EmptyFn]

(***************************************************************************)
(* Versioned.__init__ (commit_hash given, or read from the branch head, or *)
(* the initial empty commit) and GCVersioned.__init__                      *)
(***************************************************************************)
InitialCommit(st, branch, t) ==
  LET h == _content_hash(st.hashes, <<>>, EmptyFn, EmptyFn, NoInfo)
  IN [id |-> h.id,
      st |-> [WriteCommit(st, h.id, h.hashes, EmptyFn, <<>>, <<>>, EmptyFn,
                          <<>>, 0,
                          NoInfo, EmptyFn, t)
                EXCEPT !.head[branch] = h.id]]

NewView(st, commit_hash, branch, gc) ==
  [_load_commit(st, ClosedView, commit_hash)
     EXCEPT !.open = TRUE, !.gc = gc, !.branch = branch]

\* the constructor without commit_hash, up to its read of the branch head:
\* a head found is loaded; with no head the constructor goes on to write
\* the initial commit
Construct(st, branch, gc, t) ==
  IF st.head[branch] # NoCommit
  THEN [st |-> st, vw |-> NewView(st, st.head[branch], branch, gc)]
  ELSE [st |-> st, vw |-> [ClosedView EXCEPT !.pc = "init_write", !.branch = branch, !.gc = gc]]

\* store.set_many(**initial): the records of the initial commit and the
\* branch head in one batch write, whatever the head holds by now
WriteInitial(st, vw, t) ==
  The({[st |-> i.st, vw |-> NewView(i.st, i.id, vw.branch, vw.gc)] : i \in {InitialCommit(st, vw.branch, t)}})

(***************************************************************************)
(* Versioned.commit, in steps: each step maps the store and the view to    *)
(* the store and the view after it                                         *)
(***************************************************************************)
\* the end of Versioned.commit(): GCVersioned.commit goes on to
\* maybe_rebase when the result is merged
Finish(vw, res) ==
  IF vw.gc /\ res.kind = "merged"
  THEN [Returned(vw, res) EXCEPT !.pc = "maybe_rebase"]
  ELSE Returned(vw, res)

\* the outcome of the commit() that view vw is in
CommitRes(vw, kind, strategy, commit) ==
  [Res("commit", kind, strategy, commit)
     EXCEPT !.base0 = vw.entry.base, !.ours = vw.cur,
            !.theirs = vw.entry.head]

\* a CAS lost, or no common ancestor: _restore_state, then per on_conflict,
\* which commit() first reads here
Failed(vw, strategy, on_conflict) ==
  Finish(_restore_state(vw, vw.saved),
         [CommitRes(vw, IF on_conflict = "abandon" THEN "abandoned"
                        ELSE "ConcurrencyError", strategy, NoCommit)
            EXCEPT !.on_conflict = on_conflict])

\* commit() up to the batch write of the local commit: the no-op return,
\* the read of the branch head, _snapshot_state and _create_commit
Entry(vw, current_head, updates, removals) ==
  [cur |-> vw.cur, base |-> vw.base, keys |-> vw.keys, order |-> vw.order,
   meta |-> vw.meta, morder |-> vw.morder, touch |-> vw.touch,
   head |-> current_head, updated |-> DOMAIN updates, removals |-> removals]

CommitBegin(st, vw, updates, removals, info, t) ==
  IF updates = EmptyFn /\ removals = {} /\ info = NoInfo
  THEN [st |-> st,
        vw |-> Finish(vw, Res("commit", "merged", "no_op", vw.cur))]
  ELSE IF st.head[vw.branch] = vw.base
  THEN The({[st |-> c.st,
             vw |-> [c.vw EXCEPT !.pc = "ff_cas", !.res = NoRes,
                                 !.lookups = EmptyFn, !.call = NoCall,
                                 !.saved = _snapshot_state(vw),
                                 !.entry = Entry(vw, st.head[vw.branch],
                                                  updates, removals)]]
            : c \in {_create_commit(st, vw, updates, removals, info, t)}})
  ELSE IF st.head[vw.branch] = NoCommit
  THEN [st |-> st,
        vw |-> Returned(vw, Res("commit", "ValueError", "none", NoCommit))]
  ELSE The({[st |-> c.st,
             vw |-> [c.vw EXCEPT !.pc = "tw_merge", !.res = NoRes,
                                 !.lookups = EmptyFn, !.call = NoCall,
                                 !.info = info,
                                 !.their = st.head[vw.branch],
                                 !.saved = _snapshot_state(vw),
                                 !.entry = Entry(vw, st.head[vw.branch],
                                                  updates, removals)]]
            : c \in {_create_commit(st, vw, updates, removals, NoInfo, t)}})

\* FastForwardCas with store.set in place of store.cas: the head is
\* overwritten whatever it holds
FastForwardSet(st, vw, on_conflict) ==
  [st |-> [st EXCEPT !.head[vw.branch] = vw.cur],
   vw |-> Finish([vw EXCEPT !.base = vw.cur],
                 CommitRes(vw, "merged", "fast_forward", vw.cur))]

\* FastForwardCas on the head of main, whatever branch the view is on
FastForwardMain(st, vw, on_conflict) ==
  IF st.head["main"] = vw.base
  THEN [st |-> [st EXCEPT !.head["main"] = vw.cur],
        vw |-> Finish([vw EXCEPT !.base = vw.cur],
                      CommitRes(vw, "merged", "fast_forward", vw.cur))]
  ELSE [st |-> st, vw |-> Failed(vw, "fast_forward", on_conflict)]

\* the fast-forward CAS of the branch head and what follows it
FastForwardCas(st, vw, on_conflict) ==
  IF st.head[vw.branch] = vw.base
  THEN [st |-> [st EXCEPT !.head[vw.branch] = vw.cur],
        vw |-> Finish([vw EXCEPT !.base = vw.cur],
                      CommitRes(vw, "merged", "fast_forward", vw.cur))]
  ELSE [st |-> st, vw |-> Failed(vw, "fast_forward", on_conflict)]

\* EffectiveFn with the functions registered on the view taken before the
\* arguments of the call
EffectiveFnViewFirst(vw, merge_fns, default_merge, key) ==
  LET effective_fns == Update(merge_fns, vw.merge_fns)
      effective_default ==
        IF vw.default_merge # NoFn THEN vw.default_merge ELSE default_merge
  IN IF key \in DOMAIN effective_fns THEN effective_fns[key]
     ELSE effective_default

\* effective_fns.get(key, effective_default)
EffectiveFn(vw, merge_fns, default_merge, key) ==
  LET effective_fns == Update(vw.merge_fns, merge_fns)
      effective_default ==
        IF default_merge # NoFn THEN default_merge ELSE vw.default_merge
  IN IF key \in DOMAIN effective_fns THEN effective_fns[key]
     ELSE effective_default

\* _three_way_merge up to the batch write of the merge commit.  The
\* arguments merge_fns and default_merge of commit() are first read here.
\* what the view does with the outcome m of the merge
AfterMerge(vw, m, lookups, on_conflict) ==
  IF m.kind = "nolca" THEN Failed(vw, "three_way", on_conflict)
  ELSE IF m.kind = "conflict"
  THEN [Returned(vw, [CommitRes(vw, "MergeConflict", "three_way", NoCommit)
                        EXCEPT !.conflicts = m.conflicts,
                               !.merge_errors = m.merge_errors])
          EXCEPT !.lookups = lookups]
  ELSE IF m.kind = "typeerror"
  THEN [Returned(vw, CommitRes(vw, "TypeError", "three_way", NoCommit))
          EXCEPT !.lookups = lookups]
  ELSE [vw EXCEPT !.pc = "tw_cas", !.touch = m.touch,
                  !.mh = m.merge_hash, !.mk = m.merged_keyset,
                  !.mo = m.order, !.mm = m.merged_meta,
                  !.mauto = m.auto_merged, !.lookups = lookups]

ThreeWayMerge(st, vw, merge_fns, default_merge, on_conflict, perm, t) ==
  The({
    The({[st |-> m.st,
          vw |-> The({[AfterMerge(vw, m, lookups, on_conflict)
                         EXCEPT !.call = CallOf(merge_fns, default_merge,
                                                m.to_resolve)]
                      : lookups \in {Restrict(fns, m.to_resolve)}})]
         : m \in {_three_way_merge(st, vw, vw.their, fns, perm, vw.info, t)}})
    : fns \in {[k \in Keys |->
                 EffectiveFn(vw, merge_fns, default_merge, k)]}})

\* the CAS of the branch head from their_head to the merge commit
ThreeWayCas(st, vw, on_conflict) ==
  IF st.head[vw.branch] = vw.their
  THEN [st |-> [st EXCEPT !.head[vw.branch] = vw.mh],
        vw |-> Finish([vw EXCEPT !.keys = vw.mk, !.order = vw.mo,
                                 !.cur = vw.mh, !.base = vw.mh,
                                 !.meta = vw.mm,
                                 !.morder = Sorted(vw.mo, DOMAIN vw.mm)],
                      [CommitRes(vw, "merged", "three_way", vw.mh)
                         EXCEPT !.auto_merged = vw.mauto])]
  ELSE [st |-> st, vw |-> Failed(vw, "three_way", on_conflict)]

(***************************************************************************)
(* Versioned.refresh                                                       *)
(***************************************************************************)
\* refresh that reloads the head commit without update_base
RefreshKeepBase(st, vw) ==
  IF st.head[vw.branch] = NoCommit
  THEN [st |-> st,
        vw |-> Returned(vw, Res("refresh", "ValueError", "none", NoCommit))]
  ELSE [st |-> st,
        vw |-> Returned([_load_commit(st, vw, st.head[vw.branch])
                           EXCEPT !.base = vw.base],
                        Res("refresh", "ok", "none", NoCommit))]

refresh(st, vw) ==
  IF st.head[vw.branch] = NoCommit
  THEN [st |-> st,
        vw |-> Returned(vw, Res("refresh", "ValueError", "none", NoCommit))]
  ELSE [st |-> st,
        vw |-> Returned(_load_commit(st, vw, st.head[vw.branch]),
                        Res("refresh", "ok", "none", NoCommit))]

(***************************************************************************)
(* GCVersioned: the water marks of a GC-enabled view, and the default      *)
(* min_age of clean_orphans (seconds)                                      *)
(***************************************************************************)
Waters == [high_water |-> 2, low_water |-> 1]
DefaultMinAge == 3600

\* GCVersioned._load_total_size
_load_total_size(st, vw, default) ==
  IF vw.cur \in DOMAIN st.recs THEN st.recs[vw.cur].total ELSE default

\* Coldest with the key (last_touch, size): among the keys touched last at
\* the same time the smallest comes first
ColdestSmallest(user_meta, order, S) ==
  CHOOSE k \in S : \A j \in S \ {k} :
    \/ user_meta[k].last_touch < user_meta[j].last_touch
    \/ /\ user_meta[k].last_touch = user_meta[j].last_touch
       /\ user_meta[k].size < user_meta[j].size
    \/ /\ user_meta[k].last_touch = user_meta[j].last_touch
       /\ user_meta[k].size = user_meta[j].size
       /\ PosIn(order, k) < PosIn(order, j)

\* sorted(user_meta.items(), key=(last_touch, -size)): the coldest key
\* first; keys that tie stay in the order of the meta dict
Coldest(user_meta, order, S) ==
  CHOOSE k \in S : \A j \in S \ {k} :
    \/ user_meta[k].last_touch < user_meta[j].last_touch
    \/ /\ user_meta[k].last_touch = user_meta[j].last_touch
       /\ user_meta[k].size > user_meta[j].size
    \/ /\ user_meta[k].last_touch = user_meta[j].last_touch
       /\ user_meta[k].size = user_meta[j].size
       /\ PosIn(order, k) < PosIn(order, j)

\* the high/low water loop: drop the coldest until total <= low_water
RECURSIVE DropColdest(_, _, _, _, _)
DropColdest(user_meta, order, S, total, low_water) ==
  IF S = {} \/ total <= low_water THEN {}
  ELSE The({{k} \cup DropColdest(user_meta, order, S \ {k},
                                 total - user_meta[k].size, low_water)
            : k \in {Coldest(user_meta, order, S)}})

\* (history) the batch write that took st to st2 changed a commit record
\* or a blob that st held
Overwrites(st, st2) ==
  \/ \E c \in DOMAIN st.recs : st2.recs[c] # st.recs[c]
  \/ \E p \in DOMAIN st.blobs : st2.blobs[p] # st.blobs[p]

(***************************************************************************)
(* GCVersioned.rebase up to and including the batch write of the new root  *)
(* commit.  use_keep is "keep_keys is not None"; perm is the order in      *)
(* which this process iterates a set of keys.                              *)
(***************************************************************************)
RebaseWrite(st, vw, use_keep, keep_keys, perm, info, t) ==
  The({
    The({
      The({
        The({
          The({
            [st |-> w,
             vw |-> [vw EXCEPT !.pc = "rb_cas", !.mh = h.id,
                               !.mk = [k \in copied |-> <<h.id, k>>],
                               !.mo = order, !.mm = new_meta,
                               !.dropped = dropped,
                               !.kept = (protected_keys \cup DOMAIN user_meta)
                                          \ dropped,
                               !.in_rebase = TRUE,
                               !.rewrote = Overwrites(st, w)]]
            : w \in {WriteCommit(st, h.id, h.hashes,
                                 [k \in copied |-> <<h.id, k>>], order, <<>>,
                                 new_meta, Sorted(order, DOMAIN new_meta),
                                 SumOver([k \in DOMAIN new_meta |->
                                            new_meta[k].size],
                                         DOMAIN new_meta),
                                 info,
                                 [p \in {<<h.id, k>> : k \in copied} |->
                                    GetBlob(st, vw.keys[p[2]])],
                                 t)}})
          : h \in {_content_hash(st.hashes, <<>>,
                                 [k \in protected_keys \cup DOMAIN retained_data
                                    |-> IF k \in DOMAIN retained_data
                                        THEN <<Pending, k>> ELSE vw.keys[k]],
                                 retained_data, info)},
            new_meta \in {Restrict(vw.meta,
                                   DOMAIN retained_data \cap DOMAIN vw.meta)},
            copied \in {{k \in protected_keys : GetBlob(st, vw.keys[k]) # 0}
                          \cup DOMAIN retained_data},
            order \in {Sorted(vw.order,
                              {k \in protected_keys :
                                 GetBlob(st, vw.keys[k]) # 0})
                         \o Sorted(perm, DOMAIN retained_data)}})
        : retained_data \in
            {[k \in {x \in DOMAIN user_meta \ dropped :
                       /\ x \in DOMAIN vw.keys
                       /\ GetBlob(st, vw.keys[x]) # 0} |->
                GetBlob(st, vw.keys[k])]}})
      : dropped \in
          {IF use_keep THEN {k \in DOMAIN user_meta : k \notin keep_keys}
           ELSE DropColdest(user_meta, vw.morder,
                            DOMAIN user_meta,
                            SumOver([k \in DOMAIN user_meta |->
                                       user_meta[k].size], DOMAIN user_meta),
                            Waters.low_water)}})
    : protected_keys \in {{k \in DOMAIN vw.keys : _is_system_key(k)}},
      user_meta \in {Restrict(vw.meta,
                              {k \in DOMAIN vw.meta : ~_is_system_key(k)})}})

\* GCVersioned.maybe_rebase, at the end of GCVersioned.commit
MaybeRebase(st, vw, perm, t) ==
  IF _load_total_size(st, vw, 0) <= Waters.high_water
  THEN [st |-> st, vw |-> Returned(vw, vw.res)]
  ELSE RebaseWrite(st, vw, FALSE, {}, perm, NoInfo, t)

\* the in-memory update of rebase, after the CAS and the removals
RebaseInstall(vw) ==
  [vw EXCEPT !.keys = vw.mk, !.order = vw.mo, !.cur = vw.mh, !.base = vw.mh,
             !.meta = vw.mm, !.morder = Sorted(vw.mo, DOMAIN vw.mm),
             !.pc = "co_mark", !.min_age = DefaultMinAge]

\* the blob pointers rebase removes: the old pointers of the dropped keys
ToDelete(vw) == {vw.keys[k] : k \in vw.dropped \cap DOMAIN vw.keys}

RemoveBlobs(st, ptrs) ==
  [st EXCEPT !.blobs = Restrict(@, DOMAIN @ \ ptrs)]

\* the CAS of the branch head from base_commit to the new root
RebaseCas(st, vw) ==
  IF st.head[vw.branch] = vw.base
  THEN [st |-> [st EXCEPT !.head[vw.branch] = vw.mh],
        vw |-> IF ToDelete(vw) = {} THEN RebaseInstall(vw)
               ELSE [vw EXCEPT !.pc = "rb_delete"]]
  ELSE [st |-> st,
        vw |-> Returned(vw, Res(vw.res.op, "ConcurrencyError", "rebase",
                                NoCommit))]

\* store.remove_many of the dropped keys' blobs
RebaseDelete(st, vw) ==
  [st |-> RemoveBlobs(st, ToDelete(vw)), vw |-> RebaseInstall(vw)]

(***************************************************************************)
(* GCVersioned.clean_orphans                                               *)
(***************************************************************************)
\* Versioned.history(start, all_parents=True), as a set
RECURSIVE HistoryAll(_, _, _)
HistoryAll(st, visited, queue) ==
  IF queue = <<>> THEN visited
  ELSE IF Head(queue) \in visited THEN HistoryAll(st, visited, Tail(queue))
  ELSE HistoryAll(st, visited \cup {Head(queue)},
                  Tail(queue) \o _load_parents(st, Head(queue)))

\* the mark phase: every commit reachable from any branch head
Reachable(st) ==
  UNION {HistoryAll(st, {}, <<st.head[b]>>) :
           b \in {x \in Branches : st.head[x] # NoCommit}}

CleanMark(st, vw) ==
  [st |-> st, vw |-> [vw EXCEPT !.pc = "co_sweep", !.reachable = Reachable(st)]]

\* the commits the sweep looks at: a __meta__ record, not marked
Candidates(st, reachable) == DOMAIN st.recs \ reachable

\* next(iter(meta.values())): the entry of the first key of the stored meta
FirstEntry(rec) == rec.meta[Head(rec.morder)]

\* the sweep phase: the candidates whose first meta entry is older than
\* the cutoff
Orphans(st, reachable, min_age, t) ==
  {c \in Candidates(st, reachable) :
     /\ DOMAIN st.recs[c].meta # {}
     /\ FirstEntry(st.recs[c]).created_at < t - min_age}

\* the removal of the orphans: the blobs their keysets list, then their
\* records
RemoveOrphans(st, orphans) ==
  LET blob_keys == UNION {{st.recs[c].keyset[k] : k \in DOMAIN st.recs[c].keyset} :
                            c \in orphans}
  IN [RemoveBlobs(st, blob_keys) EXCEPT
        !.recs = Restrict(@, DOMAIN @ \ orphans)]

CleanSweep(st, vw, t) ==
  LET orphans == Orphans(st, vw.reachable, vw.min_age, t)
      res == IF vw.in_rebase
             THEN IF vw.res.op = "commit" THEN vw.res
                  ELSE [Res("rebase", "performed", "none", vw.cur)
                          EXCEPT !.dropped_keys = vw.dropped,
                                 !.kept_keys = vw.kept]
             ELSE Res("clean_orphans", "ok", "none", NoCommit)
  IN [st |-> RemoveOrphans(st, orphans),
      vw |-> Returned(vw, res)]

\* the explicit calls rebase(keep_keys) and clean_orphans(min_age)
RebaseBegin(st, vw, keep_keys, perm, t) ==
  RebaseWrite(st, [vw EXCEPT !.res = Res("rebase", "none", "none", NoCommit)],
              TRUE, keep_keys, perm, NoInfo, t)

CleanBegin(st, vw, min_age) ==
  CleanMark(st, [vw EXCEPT !.min_age = min_age,
                           !.res = Res("clean_orphans", "none", "none",
                                       NoCommit)])

(***************************************************************************)
(* Versioned.create_branch and Versioned.reset_to                          *)
(***************************************************************************)
\* create_branch(name, at) up to its CAS: at is NoCommit for None; when
\* the call raises here, the commit of its outcome is at
create_branch(st, vw, name, at) ==
  IF at # NoCommit /\ at \notin DOMAIN st.recs
  THEN [st |-> st,
        vw |-> Returned(vw, Res("create_branch", "ValueError", "none", at))]
  ELSE [st |-> st,
        vw |-> [vw EXCEPT !.pc = "cb_cas", !.name = name,
                          !.target = IF at # NoCommit THEN at ELSE vw.cur,
                          !.res = Res("create_branch", "none", "none",
                                      NoCommit)]]

\* CreateBranchCas with store.set in place of store.cas: the head of the
\* branch is overwritten whatever it holds
CreateBranchSet(st, vw) ==
  [st |-> [st EXCEPT !.head[vw.name] = vw.target],
   vw |-> Returned(vw, Res("create_branch", "ok", "none", vw.target)),
   nv |-> NewView(st, vw.target, vw.name, FALSE)]

\* the CAS of the branch head from absent to the target, and the view
\* returned, nv (ClosedView when the call raises)
CreateBranchCas(st, vw) ==
  IF st.head[vw.name] = NoCommit
  THEN [st |-> [st EXCEPT !.head[vw.name] = vw.target],
        vw |-> Returned(vw, Res("create_branch", "ok", "none", vw.target)),
        nv |-> NewView(st, vw.target, vw.name, FALSE)]
  ELSE [st |-> st,
        vw |-> Returned(vw, Res("create_branch", "ValueError", "cas",
                                NoCommit)),
        nv |-> ClosedView]

\* checkout(commit_hash, branch): branch is NoBranch for None; the view
\* returned is nv, ClosedView standing for None
NoBranch == "none"

checkout(st, vw, commit_hash, branch) ==
  IF commit_hash \notin DOMAIN st.recs
  THEN [st |-> st,
        vw |-> Returned(vw, Res("checkout", "none", "none", commit_hash)),
        nv |-> ClosedView]
  ELSE [st |-> st,
        vw |-> Returned(vw, Res("checkout", "ok", "none", commit_hash)),
        nv |-> NewView(st, commit_hash,
                       IF branch # NoBranch THEN branch ELSE vw.branch,
                       FALSE)]

reset_to(st, vw, commit_hash) ==
  IF commit_hash \notin DOMAIN st.recs
  THEN [st |-> st,
        vw |-> Returned(vw, Res("reset_to", "false", "none", NoCommit))]
  ELSE [st |-> [st EXCEPT !.head[vw.branch] = commit_hash],
        vw |-> Returned(_load_commit(st, vw, commit_hash),
                        Res("reset_to", "ok", "none", commit_hash))]

(***************************************************************************)

(***************************************************************************)
(* Versioned.history, as the sequence of the commits it yields             *)
(***************************************************************************)
\* the linear walk that follows the last parent in place of the first
RECURSIVE HistoryLinearLast(_, _)
HistoryLinearLast(st, current) ==
  IF current = NoCommit THEN <<>>
  ELSE <<current>> \o HistoryLinearLast(st, IF _load_parents(st, current) = <<>> THEN NoCommit ELSE _load_parents(st, current)[Len(_load_parents(st, current))])

\* all_parents=False: current, then parents[0], until a commit without parents
RECURSIVE HistoryLinear(_, _)
HistoryLinear(st, current) ==
  IF current = NoCommit THEN <<>>
  ELSE <<current>> \o HistoryLinear(st, IF _load_parents(st, current) = <<>> THEN NoCommit ELSE Head(_load_parents(st, current)))

\* all_parents=True: breadth-first over every parent; a commit popped when
\* already visited is skipped, and only parents not yet visited are queued
RECURSIVE HistoryBfs(_, _, _)
HistoryBfs(st, visited, queue) ==
  IF queue = <<>> THEN <<>>
  ELSE IF Head(queue) \in visited THEN HistoryBfs(st, visited, Tail(queue))
  ELSE <<Head(queue)>> \o HistoryBfs(st, visited \cup {Head(queue)}, Tail(queue) \o SelectSeq(_load_parents(st, Head(queue)), LAMBDA p : p \notin visited \cup {Head(queue)}))

history(st, commit_hash, all_parents) ==
  IF all_parents THEN HistoryBfs(st, {}, <<commit_hash>>) ELSE HistoryLinear(st, commit_hash)
(* The batches (updates, removals) a caller passes to commit()             *)
(***************************************************************************)
Batches(K, V) ==
  {b \in [updates : UNION {[S -> V] : S \in SUBSET K},
          removals : SUBSET K] : DOMAIN b.updates \cap b.removals = {}}

\* the batches that update one key
Puts(K, V) == {b \in Batches(K, V) : Cardinality(DOMAIN b.updates) = 1 /\ b.removals = {}}

\* the batches that touch at most one key, and those that update every key
SmallBatches(K, V) ==
  {b \in Batches(K, V) :
     \/ Cardinality(DOMAIN b.updates \cup b.removals) <= 1
     \/ DOMAIN b.updates = K}

\* the bytes each view writes
ValueOf(v) == IF v = "v2" THEN 2 ELSE 1

\* the orders in which a process may iterate a set of keys drawn from K
RECURSIVE Perms(_)
Perms(K) ==
  IF K = {} THEN {<<>>}
  ELSE UNION {{<<k>> \o p : p \in Perms(K \ {k})} : k \in K}

OnConflict == {"raise", "abandon"}

(***************************************************************************)
(* Actions: one step of one view.  r is what the step makes of the store   *)
(* and of the view.  A step that writes a commit takes the bound max: it   *)
(* is not taken when it would compute more than max commit ids or raise    *)
(* the view's touch counter above MaxTouch.                                *)
(***************************************************************************)
Step(v, r) ==
  /\ store' = r.st
  /\ views' = [views EXCEPT ![v] = r.vw]
  /\ UNCHANGED now

Writes(v, r, max) ==
  /\ Len(r.st.hashes) <= max
  /\ r.vw.touch <= MaxTouch
  /\ Step(v, r)

\* commit(updates, removals) with a batch of B
Commit(v, B, max) ==
  /\ Ready(views[v])
  /\ \E b \in B :
       \E r \in {CommitBegin(store, views[v], b.updates, b.removals, NoInfo,
                             now)} :
         Writes(v, r, max)

CommitFastForward(v) ==
  /\ views[v].pc = "ff_cas"
  /\ \E onc \in OnConflict :
       \E r \in {FastForwardCas(store, views[v], onc)} : Step(v, r)

\* the merge, with the arguments merge_fns and default_merge of commit()
\* drawn from F and D
CommitMerge(v, K, F, D, max) ==
  /\ views[v].pc = "tw_merge"
  /\ \E merge_fns \in F, default_merge \in D, onc \in OnConflict,
        perm \in Perms(K) :
       \E r \in {ThreeWayMerge(store, views[v], merge_fns, default_merge, onc,
                               perm, now)} :
         Writes(v, r, max)

CommitMergeCas(v) ==
  /\ views[v].pc = "tw_cas"
  /\ \E onc \in OnConflict :
       \E r \in {ThreeWayCas(store, views[v], onc)} : Step(v, r)

Refresh(v) ==
  /\ Ready(views[v])
  /\ \E r \in {refresh(store, views[v])} : Step(v, r)

\* GCVersioned.commit goes on to maybe_rebase
AutoRebase(v, K, max) ==
  /\ views[v].pc = "maybe_rebase"
  /\ \E perm \in Perms(K) :
       \E r \in {MaybeRebase(store, views[v], perm, now)} : Writes(v, r, max)

\* the explicit rebase(keep_keys)
Rebase(v, U, K, max) ==
  /\ Ready(views[v])
  /\ views[v].gc
  /\ \E keep_keys \in SUBSET U, perm \in Perms(K) :
       \E r \in {RebaseBegin(store, views[v], keep_keys, perm, now)} :
         Writes(v, r, max)

RebaseHead(v) ==
  /\ views[v].pc = "rb_cas"
  /\ \E r \in {RebaseCas(store, views[v])} : Step(v, r)

RebaseRemove(v) ==
  /\ views[v].pc = "rb_delete"
  /\ \E r \in {RebaseDelete(store, views[v])} : Step(v, r)

\* the explicit clean_orphans(min_age)
CleanOrphans(v, ages) ==
  /\ Ready(views[v])
  /\ views[v].gc
  /\ \E min_age \in ages :
       \E r \in {CleanBegin(store, views[v], min_age)} : Step(v, r)

OrphanMark(v) ==
  /\ views[v].pc = "co_mark"
  /\ \E r \in {CleanMark(store, views[v])} : Step(v, r)

OrphanSweep(v) ==
  /\ views[v].pc = "co_sweep"
  /\ \E r \in {CleanSweep(store, views[v], now)} : Step(v, r)

\* view v calls create_branch(name, at), at None, a commit id or an id
\* that no commit has
CreateBranch(v, name) ==
  /\ Ready(views[v])
  /\ \E at \in {NoCommit} \cup (1..(Len(store.hashes) + 1)) :
       \E r \in {create_branch(store, views[v], name, at)} : Step(v, r)

\* the CAS of create_branch; the view the caller gets back is nv
CreateBranchHead(v, nv) ==
  /\ views[v].pc = "cb_cas"
  /\ \E r \in {CreateBranchCas(store, views[v])} :
       /\ store' = r.st
       /\ views' = [views EXCEPT ![v] = r.vw,
                                 ![nv] = IF r.nv.open THEN r.nv ELSE @]
       /\ UNCHANGED now

\* view v checks out a commit id on branch B; the view it gets back is nv
Checkout(v, nv, B) ==
  /\ Ready(views[v])
  /\ ~views[nv].open
  /\ \E commit_hash \in 1..Len(store.hashes), branch \in B :
       \E r \in {checkout(store, views[v], commit_hash, branch)} :
         /\ store' = r.st
         /\ views' = [views EXCEPT ![v] = r.vw, ![nv] = r.nv]
         /\ UNCHANGED now

ResetTo(v) ==
  /\ Ready(views[v])
  /\ \E commit_hash \in 1..Len(store.hashes) :
       \E r \in {reset_to(store, views[v], commit_hash)} : Step(v, r)

\* Versioned(store, branch=...) and GCVersioned(store, branch=...)
Open(v, branch, gc) ==
  /\ ~views[v].open
  /\ views[v].pc = "idle"
  /\ \E r \in {Construct(store, branch, gc, now)} : Step(v, r)

\* the constructor writes the initial commit and the head it found absent
OpenInitial(v) ==
  /\ views[v].pc = "init_write"
  /\ \E r \in {WriteInitial(store, views[v], now)} : Step(v, r)

\* the clock advances by more than the default min_age; no call lasts
\* that long, so it does while no view is inside one
Tick ==
  /\ now < MaxTicks * (DefaultMinAge + 1)
  /\ \A v \in AllViews : views[v].pc = "idle"
  /\ now' = now + DefaultMinAge + 1
  /\ UNCHANGED <<store, views>>

(* Spec: views v1 and v2, both open on branch main of a new store, commit  *)
(* and refresh concurrently.                                               *)
(***************************************************************************)
Writers == {"v1", "v2"}
UserKeys == {"a", "b"}

Init ==
  LET i == InitialCommit(EmptyStore, "main", 0)
  IN /\ store = i.st
     /\ views = [v \in AllViews |->
                   IF v \in Writers THEN NewView(i.st, i.id, "main", FALSE)
                   ELSE ClosedView]
     /\ now = 0

Next ==
  \E v \in Writers :
    \/ Commit(v, SmallBatches(UserKeys, {ValueOf(v)}), MaxCommits)
    \/ CommitFastForward(v)
    \/ CommitMerge(v, UserKeys, [UserKeys -> MergeFns \cup {NoFn}], {NoFn},
                   MaxCommits)
    \/ CommitMergeCas(v)
    \/ Refresh(v)

Spec == Init /\ [][Next]_vars

(***************************************************************************)
(* SpecGC: v1 (a Versioned) and v2 (a GCVersioned) are open on branch main *)
(* of a new store; they commit and refresh concurrently, v2 also rebases   *)
(* and sweeps orphans, v1 may fork branch dev or a third view may be       *)
(* constructed on it, and the clock may advance.                           *)
(***************************************************************************)
GCKeys == {"a", "__p"}
MinAges == {DefaultMinAge}
KeysOf(v) == IF v = "v2" THEN {"__p"} ELSE {"a"}

InitGC ==
  LET i == InitialCommit(EmptyStore, "main", 0)
  IN /\ store = i.st
     /\ views = [v \in AllViews |->
                   IF v = "v1" THEN NewView(i.st, i.id, "main", FALSE)
                   ELSE IF v = "v2" THEN NewView(i.st, i.id, "main", TRUE)
                   ELSE ClosedView]
     /\ now = 0

NextGC ==
  \/ \E v \in Writers :
       \/ Commit(v, Puts(KeysOf(v), {ValueOf(v)}), MaxCommits)
       \/ CommitFastForward(v)
       \/ CommitMerge(v, GCKeys, {EmptyFn}, {NoFn}, MaxCommits)
       \/ CommitMergeCas(v)
       \/ Refresh(v)
  \/ AutoRebase("v2", GCKeys, MaxCommits)
  \/ Rebase("v2", {"a"}, GCKeys, MaxCommits)
  \/ RebaseHead("v2")
  \/ RebaseRemove("v2")
  \/ CleanOrphans("v2", MinAges)
  \/ OrphanMark("v2")
  \/ OrphanSweep("v2")
  \/ Tick

SpecGC == InitGC /\ [][NextGC]_vars

(***************************************************************************)
(* SpecLCA: v1 has committed MaxChain times to branch main; v2 was opened  *)
(* before the first of these commits and v3 after it.  v2 and v3 now       *)
(* commit and refresh concurrently, each to a key of its own.              *)
(***************************************************************************)
MaxChain == 3

\* commit(updates) by the only writer: the local commit, then the CAS
Committed(st, vw, updates, t) ==
  The({FastForwardCas(c.st, c.vw, "raise")
       : c \in {CommitBegin(st, vw, updates, {}, NoInfo, t)}})

\* n more commits of updates, one after the other
RECURSIVE Chain(_, _, _, _)
Chain(r, updates, t, n) ==
  IF n = 0 THEN r
  ELSE Chain(Committed(r.st, r.vw, updates, t), updates, t, n - 1)

Mergers == {"v2", "v3"}
KeyOf(v) == IF v = "v2" THEN {"b"} ELSE {"__p"}

InitLCA ==
  \E i \in {InitialCommit(EmptyStore, "main", 0)} :
    \E c1 \in {Committed(i.st, NewView(i.st, i.id, "main", FALSE),
                         [k \in {"a"} |-> ValueOf("v1")], 0)} :
      \E r \in {Chain(c1, [k \in {"a"} |-> ValueOf("v1")], 0, MaxChain - 1)} :
        /\ store = r.st
        /\ views = [v \in AllViews |->
                      IF v = "v1" THEN r.vw
                      ELSE IF v = "v2" THEN NewView(i.st, i.id, "main", FALSE)
                      ELSE NewView(c1.st, c1.st.head["main"], "main", FALSE)]
        /\ now = 0

NextLCA ==
  \E v \in Mergers :
    \/ Commit(v, Puts(KeyOf(v), {ValueOf(v)}), MaxCommits + MaxChain)
    \/ CommitFastForward(v)
    \/ CommitMerge(v, Keys, {EmptyFn}, {NoFn}, MaxCommits + MaxChain)
    \/ CommitMergeCas(v)
    \/ Refresh(v)

SpecLCA == InitLCA /\ [][NextLCA]_vars

(***************************************************************************)

(***************************************************************************)
(* SpecWater: two GCVersioned views with the same water marks are opened   *)
(* on branch main of a store that is new or holds one commit, a = 1.  They *)
(* commit                                                                  *)
(* and refresh concurrently, each to a key of its own, and every merged    *)
(* commit goes on to maybe_rebase and, past high_water, to rebase and the  *)
(* orphan sweep.                                                           *)
(***************************************************************************)
MaxWater == 5
WaterKeys == {"a", "b"}
WaterKeyOf(v) == IF v = "v2" THEN {"a"} ELSE {"b"}
WaterValues(v) == IF v = "v2" THEN {2} ELSE {1, 2}

InitWater ==
  \E i \in {InitialCommit(EmptyStore, "main", 0)} :
    \E s0 \in {i.st,
                Committed(i.st, NewView(i.st, i.id, "main", FALSE),
                          [k \in {"a"} |-> 1], 0).st} :
      /\ store = s0
      /\ views = [v \in AllViews |->
                    IF v \in Writers
                    THEN NewView(s0, s0.head["main"], "main", TRUE)
                    ELSE ClosedView]
      /\ now = 0

NextWater ==
  \E v \in Writers :
    \/ Commit(v, Puts(WaterKeyOf(v), WaterValues(v)), MaxWater)
    \/ CommitFastForward(v)
    \/ CommitMerge(v, WaterKeys, {EmptyFn}, {NoFn}, MaxWater)
    \/ CommitMergeCas(v)
    \/ Refresh(v)
    \/ AutoRebase(v, WaterKeys, MaxWater)
    \/ RebaseHead(v)
    \/ RebaseRemove(v)
    \/ OrphanMark(v)
    \/ OrphanSweep(v)

SpecWater == InitWater /\ [][NextWater]_vars

(***************************************************************************)
(* SpecMerge: v1 and v2 are opened on branch main of a store whose head    *)
(* either is the initial commit or holds the counter a = 1; v2 may have    *)
(* registered a merge function for a and a default one.  Both commit       *)
(* counter values for a (v2 also a second key) or remove a, concurrently,  *)
(* and pass per-call merge functions; neither refreshes.                   *)
(***************************************************************************)
MaxMerge == 5
MergeKeys == {"a", "b"}
Resolvers == {"lww", "counter", "raise"}

\* the counter values each view commits
CountsOf(v) == IF v = "v2" THEN {2} ELSE {1, 2}

\* commit({a: encode(c)}), and by v2 only commit({a: encode(c), b: ...}) and
\* commit(removals={a})
MergeBatches(v) ==
  {[updates |-> [k \in {"a"} |-> encode(c)], removals |-> {}]
     : c \in CountsOf(v)}
  \cup {[updates |-> [k \in MergeKeys |-> IF k = "a" THEN encode(c) ELSE 1],
         removals |-> {}] : c \in {x \in CountsOf(v) : v = "v2"}}
  \cup {[updates |-> EmptyFn, removals |-> {"a"}] : x \in {v} \cap {"v2"}}

\* the merge_fns argument: none, or a function for a
PerCall == {EmptyFn} \cup {[k \in {"a"} |-> f] : f \in {"lww", "raise"}}

\* the default_merge argument, the function v2 may have registered for a,
\* and the default it may have registered
PerCallDefault == {NoFn, "raise"}
RegisteredFns == {NoFn, "counter"}
RegisteredDefault == {NoFn, "lww"}

\* the view after set_merge_fn("a", f) and set_default_merge(d), where given
Registered(vw, f, d) ==
  The({IF d = NoFn THEN w ELSE set_default_merge(w, d)
       : w \in {IF f = NoFn THEN vw ELSE set_merge_fn(vw, "a", f)}})

InitMerge ==
  \E i \in {InitialCommit(EmptyStore, "main", 0)} :
    \E u0 \in {EmptyFn, [k \in {"a"} |-> encode(1)]},
       f \in RegisteredFns, d \in RegisteredDefault :
      \E c \in {IF u0 = EmptyFn
                THEN [st |-> i.st, vw |-> NewView(i.st, i.id, "main", FALSE)]
                ELSE Committed(i.st, NewView(i.st, i.id, "main", FALSE),
                               u0, 0)} :
        /\ store = c.st
        /\ views = [v \in AllViews |->
                      IF v = "v1"
                      THEN NewView(c.st, c.st.head["main"], "main", FALSE)
                      ELSE IF v = "v2"
                      THEN Registered(NewView(c.st, c.st.head["main"], "main",
                                              FALSE), f, d)
                      ELSE ClosedView]
        /\ now = 0

NextMerge ==
  \E v \in Writers :
    \/ Commit(v, MergeBatches(v), MaxMerge)
    \/ CommitFastForward(v)
    \/ CommitMerge(v, MergeKeys, PerCall, PerCallDefault, MaxMerge)
    \/ CommitMergeCas(v)

SpecMerge == InitMerge /\ [][NextMerge]_vars

(***************************************************************************)
(* SpecView: v1 is opened on branch main of a new store and commits to     *)
(* key a; v3 is a view v1 gets from checkout(id), on the same branch or    *)
(* on dev, and commits to key b.  Both refresh.                            *)
(***************************************************************************)
Viewers == {"v1", "v3"}
ViewKeyOf(v) == IF v = "v3" THEN {"b"} ELSE {"a"}

InitView ==
  \E i \in {InitialCommit(EmptyStore, "main", 0)} :
    /\ store = i.st
    /\ views = [v \in AllViews |->
                  IF v = "v1" THEN NewView(i.st, i.id, "main", FALSE)
                  ELSE ClosedView]
    /\ now = 0

NextView ==
  \/ \E v \in Viewers :
       \/ Commit(v, Puts(ViewKeyOf(v), {ValueOf(v)}), MaxCommits)
       \/ CommitFastForward(v)
       \/ CommitMerge(v, UserKeys, {EmptyFn}, {NoFn}, MaxCommits)
       \/ CommitMergeCas(v)
       \/ Refresh(v)
  \/ Checkout("v1", "v3", {NoBranch, "dev"})

SpecView == InitView /\ [][NextView]_vars

(***************************************************************************)
(* SpecBranch: v1 and v2, both open on branch main of a new store, commit  *)
(* and refresh concurrently, each to a key of its own; both may call       *)
(* create_branch for dev, and the view the successful call returns, v3,    *)
(* commits to either key on dev.                                           *)
(***************************************************************************)
MaxBranch == 4
BranchKeyOf(v) == IF v = "v1" THEN {"a"} ELSE IF v = "v2" THEN {"b"} ELSE {"a", "b"}

NextBranch ==
  \/ \E v \in AllViews :
       \/ Commit(v, Puts(BranchKeyOf(v), {ValueOf(v)}), MaxBranch)
       \/ CommitFastForward(v)
       \/ CommitMerge(v, UserKeys, {EmptyFn}, {NoFn}, MaxBranch)
       \/ CommitMergeCas(v)
       \/ Refresh(v)
  \/ \E v \in Writers :
       \/ CreateBranch(v, "dev")
       \/ CreateBranchHead(v, "v3")

SpecBranch == Init /\ [][NextBranch]_vars

(***************************************************************************)
(* SpecMemory: three threads call cas, set, set_many and remove on one key *)
(* of one Memory backend.  store.all_locked tells the variant: TRUE is     *)
(* kvgit/kv/memory.py, where every operation runs under self._lock, FALSE  *)
(* is vkv/kv/memory.py, where only cas takes it.  A thread that holds the  *)
(* lock is between the comparison of its cas and the write; 0 stands for   *)
(* None, the value get returns for an absent key.                          *)
(***************************************************************************)
MaxCalls == 2

InitMemory ==
  /\ \E all_locked \in BOOLEAN, m \in {EmptyFn} \cup [{"a"} -> Values] :
       store = [memory |-> m, lock |-> "none", all_locked |-> all_locked]
  /\ views = [t \in AllViews |-> [pc |-> "idle", key |-> "a", value |-> 0, expected |-> 0, ret |-> "none", calls |-> 0]]
  /\ now = 0

MemoryGet(memory, key) == IF key \in DOMAIN memory THEN memory[key] ELSE 0

\* cas up to its comparison: under the lock, current = memory.get(key) is
\* compared with expected; on a mismatch the lock is released and False
\* returned, otherwise the thread goes on to the write
MemoryCas(t, key, value, expected) ==
  /\ views[t].pc = "idle"
  /\ views[t].calls < MaxCalls
  /\ store.lock = "none"
  /\ IF MemoryGet(store.memory, key) = expected
     THEN /\ store' = [store EXCEPT !.lock = t]
          /\ views' = [views EXCEPT ![t] = [pc |-> "cas_write", key |-> key, value |-> value, expected |-> expected, ret |-> "none", calls |-> @.calls + 1]]
     ELSE /\ store' = store
          /\ views' = [views EXCEPT ![t] = [pc |-> "idle", key |-> key, value |-> value, expected |-> expected, ret |-> "False", calls |-> @.calls + 1]]
  /\ UNCHANGED now

\* the write of a cas whose comparison succeeded; the lock is released and
\* True returned
MemoryCasWrite(t) ==
  /\ views[t].pc = "cas_write"
  /\ store' = [store EXCEPT !.memory = Update(@, [k \in {views[t].key} |-> views[t].value]), !.lock = "none"]
  /\ views' = [views EXCEPT ![t].pc = "idle", ![t].ret = "True"]
  /\ UNCHANGED now

\* set(key, value) and set_many(key=value): one dict write, under the lock
\* in the variant that locks every operation
MemorySet(t, key, value) ==
  /\ views[t].pc = "idle"
  /\ views[t].calls < MaxCalls
  /\ store.all_locked => store.lock = "none"
  /\ store' = [store EXCEPT !.memory = Update(@, [k \in {key} |-> value])]
  /\ views' = [views EXCEPT ![t].ret = "none", ![t].calls = @ + 1]
  /\ UNCHANGED now

\* remove(key) and remove_many(key): memory.pop(key, None)
MemoryRemove(t, key) ==
  /\ views[t].pc = "idle"
  /\ views[t].calls < MaxCalls
  /\ store.all_locked => store.lock = "none"
  /\ store' = [store EXCEPT !.memory = Restrict(@, DOMAIN @ \ {key})]
  /\ views' = [views EXCEPT ![t].ret = "none", ![t].calls = @ + 1]
  /\ UNCHANGED now

NextMemory ==
  \E t \in AllViews :
    \/ \E value \in Values, expected \in {0} \cup Values : MemoryCas(t, "a", value, expected)
    \/ MemoryCasWrite(t)
    \/ \E value \in Values : MemorySet(t, "a", value)
    \/ MemoryRemove(t, "a")

SpecMemory == InitMemory /\ [][NextMemory]_vars

(***************************************************************************)
(* SpecOpen: three plain views are constructed on branch main of an empty  *)
(* store and commit, each to a key, in any interleaving.                   *)
(***************************************************************************)
MaxOpen == 3

InitOpen ==
  /\ store = EmptyStore
  /\ views = [v \in AllViews |-> ClosedView]
  /\ now = 0

NextOpen ==
  \E v \in AllViews :
    \/ Open(v, "main", FALSE)
    \/ OpenInitial(v)
    \/ Commit(v, Puts(BranchKeyOf(v), {ValueOf(v)}), MaxOpen)
    \/ CommitFastForward(v)
    \/ CommitMerge(v, UserKeys, {EmptyFn}, {NoFn}, MaxOpen)
    \/ CommitMergeCas(v)

SpecOpen == InitOpen /\ [][NextOpen]_vars

(***************************************************************************)
(* SpecComposite: three callers use one Composite of two Memory tiers,     *)
(* store.tiers = <<cache, authoritative>>.  Every write goes to the last   *)
(* tier first and then to the tiers before it; a caller between the two    *)
(* is at pc "caches".  Each tier operation is atomic.                      *)
(***************************************************************************)
InitComposite ==
  /\ store = [tiers |-> <<EmptyFn, EmptyFn>>]
  /\ views = [t \in AllViews |-> [pc |-> "idle", op |-> "none", key |-> "a", value |-> 0, ret |-> "none", calls |-> 0]]
  /\ now = 0

\* one tier's set / set_many, remove / remove_many or clear
TierApply(memory, op, key, value) ==
  IF op \in {"set", "set_many"} THEN Update(memory, [k \in {key} |-> value])
  ELSE IF op \in {"remove", "remove_many"} THEN Restrict(memory, DOMAIN memory \ {key})
  ELSE EmptyFn

\* Composite.get: the first tier that holds the key, 0 being None
CompositeGet(tiers, key) ==
  IF \E i \in 1..Len(tiers) : key \in DOMAIN tiers[i]
  THEN tiers[CHOOSE i \in 1..Len(tiers) : key \in DOMAIN tiers[i] /\ \A j \in 1..(i - 1) : key \notin DOMAIN tiers[j]][key]
  ELSE 0

\* set, set_many, remove, remove_many and clear up to the write of the
\* last tier
CompositeWrite(t, op, key, value) ==
  /\ views[t].pc = "idle"
  /\ views[t].calls < MaxCalls
  /\ store' = [store EXCEPT !.tiers[Len(store.tiers)] = TierApply(@, op, key, value)]
  /\ views' = [views EXCEPT ![t] = [pc |-> "caches", op |-> op, key |-> key, value |-> value, ret |-> "none", calls |-> @.calls + 1]]
  /\ UNCHANGED now

\* cas on the last tier; on success the caller goes on to set the caches
CompositeCas(t, key, value, expected) ==
  /\ views[t].pc = "idle"
  /\ views[t].calls < MaxCalls
  /\ IF MemoryGet(store.tiers[Len(store.tiers)], key) = expected
     THEN /\ store' = [store EXCEPT !.tiers[Len(store.tiers)] = TierApply(@, "set", key, value)]
          /\ views' = [views EXCEPT ![t] = [pc |-> "caches", op |-> "set", key |-> key, value |-> value, ret |-> "True", calls |-> @.calls + 1]]
     ELSE /\ store' = store
          /\ views' = [views EXCEPT ![t] = [pc |-> "idle", op |-> "cas", key |-> key, value |-> value, ret |-> "False", calls |-> @.calls + 1]]
  /\ UNCHANGED now

\* the loop over self._stores[:-1] that repeats the write on every cache
CompositeCaches(t) ==
  /\ views[t].pc = "caches"
  /\ store' = [store EXCEPT !.tiers = [i \in 1..Len(@) |-> IF i < Len(@) THEN TierApply(@[i], views[t].op, views[t].key, views[t].value) ELSE @[i]]]
  /\ views' = [views EXCEPT ![t].pc = "idle"]
  /\ UNCHANGED now

NextComposite ==
  \E t \in AllViews :
    \/ \E op \in {"set", "set_many"}, value \in Values : CompositeWrite(t, op, "a", value)
    \/ \E op \in {"remove", "remove_many", "clear"} : CompositeWrite(t, op, "a", 0)
    \/ \E value \in Values, expected \in {0} \cup Values : CompositeCas(t, "a", value, expected)
    \/ CompositeCaches(t)

SpecComposite == InitComposite /\ [][NextComposite]_vars

(***************************************************************************)
(* SpecWriteBehind: callers v1 and v2 use one WriteBehind over a Memory;   *)
(* v3 is the worker thread.  store.queue is self._queue, store.memory the  *)
(* wrapped store; (history) every queued write carries the number seq of   *)
(* its put, store.log lists the numbers of the writes applied, and a       *)
(* caller's stamp is the number of writes queued when its call began and   *)
(* wrote the value of its last queued write (0 for a removal).             *)
(***************************************************************************)
InitWriteBehind ==
  /\ store = [memory |-> EmptyFn, queue |-> <<>>, log |-> <<>>, issued |-> 0]
  /\ views = [t \in AllViews |-> [pc |-> "idle", op |-> "none", key |-> "a", value |-> 0, expected |-> 0, ret |-> "none", stamp |-> 0, wrote |-> <<>>, calls |-> 0]]
  /\ now = 0

\* flush that does not wait
JoinedAtOnce(st, worker) == TRUE

\* Queue.join() returns: every item put has been taken and task_done called
Joined(st, worker) == st.queue = <<>> /\ worker.pc = "idle"

\* set, set_many, remove, remove_many: self._queue.put((func_name, args, kwargs))
WriteBehindPut(t, op, key, value) ==
  /\ views[t].pc = "idle"
  /\ views[t].calls < MaxCalls
  /\ store' = [store EXCEPT !.queue = Append(@, [op |-> op, key |-> key, value |-> value, seq |-> store.issued + 1]), !.issued = @ + 1]
  /\ views' = [views EXCEPT ![t] = [@ EXCEPT !.op = op, !.key = key, !.value = value, !.ret = "none", !.wrote = <<value>>, !.calls = @ + 1]]
  /\ UNCHANGED now

\* _worker: item = self._queue.get()
WorkerGet(w) ==
  /\ views[w].pc = "idle"
  /\ store.queue # <<>>
  /\ store' = [store EXCEPT !.queue = Tail(@)]
  /\ views' = [views EXCEPT ![w] = [@ EXCEPT !.pc = "apply", !.op = Head(store.queue).op, !.key = Head(store.queue).key, !.value = Head(store.queue).value, !.stamp = Head(store.queue).seq]]
  /\ UNCHANGED now

\* _worker: getattr(self.store, func_name)(*args, **kwargs), then task_done
WorkerApply(w) ==
  /\ views[w].pc = "apply"
  /\ store' = [store EXCEPT !.memory = TierApply(@, views[w].op, views[w].key, views[w].value), !.log = Append(@, views[w].stamp)]
  /\ views' = [views EXCEPT ![w].pc = "idle"]
  /\ UNCHANGED now

\* get, cas, clear and flush begin with self.flush()
WriteBehindCall(t, op, key, value, expected) ==
  /\ views[t].pc = "idle"
  /\ views[t].calls < MaxCalls
  /\ views' = [views EXCEPT ![t] = [pc |-> "flush", op |-> op, key |-> key, value |-> value, expected |-> expected, ret |-> "none", stamp |-> store.issued, wrote |-> IF op \in {"cas", "clear"} THEN <<>> ELSE @.wrote, calls |-> @.calls + 1]]
  /\ UNCHANGED <<store, now>>

\* self._queue.join() returns; flush() is over, the others go on to the
\* wrapped store
WriteBehindJoin(t, w) ==
  /\ views[t].pc = "flush"
  /\ Joined(store, views[w])
  /\ views' = [views EXCEPT ![t].pc = IF views[t].op = "flush" THEN "idle" ELSE "direct"]
  /\ UNCHANGED <<store, now>>

\* self.store.get(key), self.store.cas(key, value, expected), self.store.clear()
WriteBehindDirect(t) ==
  /\ views[t].pc = "direct"
  /\ store' = [store EXCEPT !.memory =
                 IF views[t].op = "clear" THEN EmptyFn
                 ELSE IF views[t].op = "cas" /\ MemoryGet(@, views[t].key) = views[t].expected THEN TierApply(@, "set", views[t].key, views[t].value)
                 ELSE @]
  /\ views' = [views EXCEPT ![t].pc = "idle",
                            ![t].ret = IF views[t].op = "get" THEN MemoryGet(store.memory, views[t].key)
                                       ELSE IF views[t].op = "cas" THEN (IF MemoryGet(store.memory, views[t].key) = views[t].expected THEN "True" ELSE "False")
                                       ELSE "none"]
  /\ UNCHANGED now

NextWriteBehind ==
  \/ \E t \in Writers :
       \/ \E op \in {"set", "set_many"}, value \in Values : WriteBehindPut(t, op, "a", value)
       \/ \E op \in {"remove", "remove_many"} : WriteBehindPut(t, op, "a", 0)
       \/ \E op \in {"get", "clear", "flush"} : WriteBehindCall(t, op, "a", 0, 0)
       \/ \E expected \in {0} \cup Values : WriteBehindCall(t, "cas", "a", ValueOf(t), expected)
       \/ WriteBehindJoin(t, "v3")
       \/ WriteBehindDirect(t)
  \/ WorkerGet("v3")
  \/ WorkerApply("v3")

SpecWriteBehind == InitWriteBehind /\ [][NextWriteBehind]_vars

(***************************************************************************)
(* SpecStaged: views["v3"] is a Staged over the Versioned v1, holding      *)
(* _updates and _removals; v2 is a Versioned on the same branch that       *)
(* commits beside it.  Staged values are "x" and "y".                      *)
(***************************************************************************)
StagedValues == {"x", "y"}

\* self._encoder(value)
Encoder(value) == IF value = "x" THEN 1 ELSE 2

\* encoded_updates: None when nothing is staged, else every staged value
\* encoded
EncodedUpdates(updates) == [key \in DOMAIN updates |-> Encoder(updates[key])]

InitStaged ==
  \E i \in {InitialCommit(EmptyStore, "main", 0)} :
    /\ store = i.st
    /\ views = [v \in AllViews |->
                  IF v \in Writers THEN NewView(i.st, i.id, "main", FALSE)
                  ELSE [open |-> FALSE, pc |-> "staged", versioned |-> "v1", updates |-> EmptyFn, removals |-> {}]]
    /\ now = 0

\* Staged.set
StagedSet(s, key, value) ==
  /\ Ready(views[views[s].versioned])
  /\ views' = [views EXCEPT ![s].removals = @ \ {key}, ![s].updates = Update(@, [k \in {key} |-> value])]
  /\ UNCHANGED <<store, now>>

\* Staged.remove
StagedRemove(s, key) ==
  /\ Ready(views[views[s].versioned])
  /\ views' = [views EXCEPT ![s].updates = Restrict(@, DOMAIN @ \ {key}), ![s].removals = @ \cup {key}]
  /\ UNCHANGED <<store, now>>

\* a Staged.commit that clears the buffer whatever commit() returned
StagedClears(sg, vw) ==
  IF vw.pc = "idle" THEN [sg EXCEPT !.updates = EmptyFn, !.removals = {}] ELSE sg

\* the end of Staged.commit: vw is the Versioned after a step of its
\* commit(); once that has returned a result with merged the buffer is
\* cleared, and an exception leaves Staged.commit before that
StagedReturn(sg, vw) ==
  IF vw.pc = "idle" /\ vw.res.kind = "merged" THEN [sg EXCEPT !.updates = EmptyFn, !.removals = {}] ELSE sg

StagedStep(s, r, max) ==
  /\ Len(r.st.hashes) <= max
  /\ r.vw.touch <= MaxTouch
  /\ store' = r.st
  /\ views' = [views EXCEPT ![views[s].versioned] = r.vw, ![s] = StagedReturn(@, r.vw)]
  /\ UNCHANGED now

\* Staged.commit up to the call of self._versioned.commit and that call's
\* first step
StagedCommit(s, max) ==
  /\ Ready(views[views[s].versioned])
  /\ \E r \in {CommitBegin(store, views[views[s].versioned], EncodedUpdates(views[s].updates), views[s].removals, NoInfo, now)} : StagedStep(s, r, max)

\* the later steps of self._versioned.commit inside Staged.commit
StagedCommitGoesOn(s, D, max) ==
  \E onc \in OnConflict :
    \/ /\ views[views[s].versioned].pc = "ff_cas"
       /\ \E r \in {FastForwardCas(store, views[views[s].versioned], onc)} : StagedStep(s, r, max)
    \/ /\ views[views[s].versioned].pc = "tw_merge"
       /\ \E default_merge \in D, perm \in Perms(UserKeys) :
            \E r \in {ThreeWayMerge(store, views[views[s].versioned], EmptyFn, default_merge, onc, perm, now)} : StagedStep(s, r, max)
    \/ /\ views[views[s].versioned].pc = "tw_cas"
       /\ \E r \in {ThreeWayCas(store, views[views[s].versioned], onc)} : StagedStep(s, r, max)

NextStaged ==
  \/ \E key \in UserKeys, value \in StagedValues : StagedSet("v3", key, value)
  \/ \E key \in UserKeys : StagedRemove("v3", key)
  \/ StagedCommit("v3", MaxCommits)
  \/ StagedCommitGoesOn("v3", {NoFn, "lww"}, MaxCommits)
  \/ Commit("v2", Puts(UserKeys, {ValueOf("v2")}), MaxCommits)
  \/ CommitFastForward("v2")
  \/ CommitMerge("v2", UserKeys, {EmptyFn}, {NoFn}, MaxCommits)
  \/ CommitMergeCas("v2")

SpecStaged == InitStaged /\ [][NextStaged]_vars
(* Properties                                                              *)
(***************************************************************************)
\* the pointer a keyset holds for a key, <<NoCommit, k>> when it has none
PtrOf(keyset, k) == IF k \in DOMAIN keyset THEN keyset[k] ELSE <<NoCommit, k>>

\* view v has left position pc in this step
Leaves(v, pc) == views[v].pc = pc /\ views'[v].pc # pc

\* view w is about to try the fast-forward CAS from commit base on branch b
Racing(w, b, base) ==
  /\ views[w].pc = "ff_cas"
  /\ views[w].branch = b
  /\ views[w].base = base

\* C1: a branch head changes only in a CAS step of a commit() whose
\* expected value is the head that call read, so the new head's first
\* parent is the head it replaces; of the writers racing to fast-forward
\* from one base exactly one wins: the first CAS succeeds, and the head
\* never again equals the base the others expect.
C1_HeadMovesByCas ==
  [][\A b \in Branches :
       /\ store'.head[b] # store.head[b] =>
            \E v \in AllViews :
              /\ views[v].branch = b
              /\ views[v].pc \in {"ff_cas", "tw_cas"}
              /\ views[v].entry.head = store.head[b]
              /\ views'[v].res.kind = "merged"
              /\ views'[v].res.commit = store'.head[b]
              /\ _load_parents(store', store'.head[b])[1] = store.head[b]
       /\ \A w \in AllViews :
            /\ Racing(w, b, store.head[b]) /\ Leaves(w, "ff_cas")
                 => /\ views'[w].res.kind = "merged"
                    /\ store'.head[b] = views'[w].res.commit
            /\ Racing(w, b, views[w].base) /\ store.head[b] # views[w].base
                 => /\ store'.head[b] # views[w].base
                    /\ Leaves(w, "ff_cas") =>
                         views'[w].res.kind \in {"abandoned", "ConcurrencyError"}
     ]_vars

\* two writers raced from one base: one fast-forwarded, the other lost
C1_Witness ==
  \E v, w \in AllViews :
    /\ v # w
    /\ views[v].res.kind = "merged"
    /\ views[v].res.strategy = "fast_forward"
    /\ views[w].res.kind \in {"abandoned", "ConcurrencyError"}
    /\ views[w].res.strategy = "fast_forward"
    /\ views[w].res.base0 = views[v].res.base0

\* the keys whose pointer differs between two keysets
Changed(ka, kb) == {k \in Keys : PtrOf(ka, k) # PtrOf(kb, k)}

\* commit c does nothing to its only parent base but write new values
UpdatesOnly(st, c, base) ==
  /\ _load_parents(st, c) = <<base>>
  /\ DOMAIN _load_keyset(st, base) \subseteq DOMAIN _load_keyset(st, c)
  /\ \A k \in Changed(_load_keyset(st, base), _load_keyset(st, c)) :
       _load_keyset(st, c)[k] = <<c, k>>

\* view v is merging its update of some keys with the head's update of
\* other keys, both made on the commit B the two views started from
DisjointUpdates(v) ==
  LET B == views[v].entry.base
      H == views[v].their
      L == views[v].cur
      kb == _load_keyset(store, B)
  IN /\ views[v].entry.cur = B
     /\ UpdatesOnly(store, H, B)
     /\ UpdatesOnly(store, L, B)
     /\ Changed(kb, _load_keyset(store, H)) # {}
     /\ Changed(kb, _load_keyset(store, L)) # {}
     /\ Changed(kb, _load_keyset(store, H))
          \cap Changed(kb, _load_keyset(store, L)) = {}

\* C2: when two views start from the same head and commit updates of
\* disjoint key sets, the second commit merges: the merge commit has
\* exactly the parents <<head at merge time, second writer's local commit>>,
\* its keyset is the base's keys plus both writers' keys, each pointer the
\* writer's own and its blob stored; and unless the head has moved again
\* the CAS makes it the head and commit() returns merged with strategy
\* three_way.
C2_DisjointMerge ==
  [][\A v \in AllViews :
       LET B == views[v].entry.base
           H == views[v].their
           L == views[v].cur
           kb == _load_keyset(store, B)
           kh == _load_keyset(store, H)
           kl == _load_keyset(store, L)
           M == views'[v].mh
           N == store'.head[views[v].branch]
           kn == _load_keyset(store', N)
       IN /\ Leaves(v, "tw_merge") /\ DisjointUpdates(v) =>
               /\ views'[v].pc = "tw_cas"
               /\ _load_parents(store', M) = <<H, L>>
          /\ Leaves(v, "tw_cas") /\ DisjointUpdates(v)
               /\ store.head[views[v].branch] = H =>
               /\ views'[v].res.kind = "merged"
               /\ views'[v].res.strategy = "three_way"
               /\ views'[v].res.commit = N
               /\ _load_parents(store', N) = <<H, L>>
               /\ DOMAIN kn = DOMAIN kb \cup DOMAIN kh \cup DOMAIN kl
               /\ \A k \in DOMAIN kn :
                    /\ kn[k] = IF k \in Changed(kb, kl) THEN <<L, k>>
                               ELSE IF k \in Changed(kb, kh) THEN <<H, k>>
                               ELSE kb[k]
                    /\ GetBlob(store', kn[k]) # 0
     ]_vars

\* a merge of disjoint updates has become the head: two parents, both keys
C2_Witness ==
  \E v \in AllViews :
    LET r == views[v].res
        kn == _load_keyset(store, r.commit)
    IN /\ r.kind = "merged" /\ r.strategy = "three_way"
       /\ store.head[views[v].branch] = r.commit
       /\ _load_parents(store, r.commit) = <<r.theirs, r.ours>>
       /\ UpdatesOnly(store, r.theirs, r.base0)
       /\ UpdatesOnly(store, r.ours, r.base0)
       /\ DOMAIN kn = {"a", "b"}
       /\ kn["a"][1] # kn["b"][1]
       /\ r.commit \notin {kn["a"][1], kn["b"][1]}

\* the keys both sides changed since the common ancestor lca, other than
\* those both removed or both set to the same pointer
NeedResolution(st, lca, ours, theirs) ==
  {k \in Keys :
     /\ PtrOf(_load_keyset(st, ours), k) # PtrOf(_load_keyset(st, lca), k)
     /\ PtrOf(_load_keyset(st, theirs), k) # PtrOf(_load_keyset(st, lca), k)
     /\ PtrOf(_load_keyset(st, ours), k) # PtrOf(_load_keyset(st, theirs), k)}

\* C5: a merge raises MergeConflict exactly when some key changed by both
\* sides (not removed by both, not set to the same pointer) has no merge
\* function or one that raises; conflicting_keys is exactly the set of those
\* keys and merge_errors exactly the ones whose function raised; nothing is
\* written (no merge commit, the same heads), base_commit is unchanged, and
\* the local commit stays stored and stays the view's current commit.
C5_MergeConflict ==
  [][\A v \in AllViews :
       LET H == views[v].their
           L == views[v].cur
           lca == _find_lca(store, L, H)
           need == NeedResolution(store, lca, L, H)
           fn == views'[v].lookups
           unresolved == {k \in need \cap DOMAIN fn : fn[k] \in {NoFn, "raise"}}
           r == views'[v].res
       IN Leaves(v, "tw_merge") /\ lca # NoCommit =>
            /\ DOMAIN fn = need
            /\ (r.kind = "MergeConflict") <=> (unresolved # {})
            /\ r.kind = "MergeConflict" =>
                 /\ r.conflicts = unresolved
                 /\ r.merge_errors = {k \in unresolved : fn[k] = "raise"}
                 /\ store' = store
                 /\ ~ \E c \in DOMAIN store'.recs :
                        _load_parents(store', c) = <<H, L>>
                 /\ views'[v].base = views[v].base
                 /\ views'[v].cur = L
                 /\ L \in DOMAIN store'.recs
     ]_vars

\* a MergeConflict over two keys: one without a merge function, one whose
\* function raised
C5_Witness ==
  \E v \in AllViews :
    /\ views[v].res.kind = "MergeConflict"
    /\ views[v].res.merge_errors # {}
    /\ views[v].res.conflicts \ views[v].res.merge_errors # {}
    /\ views[v].cur = views[v].res.ours
    /\ views[v].cur # views[v].base


\* the commits from which commit c descends, c itself included
Ancestors(st, c) == HistoryAll(st, {}, <<c>>)

\* the common ancestors of a and b that are ancestors of no other one
LowestCommon(st, a, b) ==
  {c \in Ancestors(st, a) \cap Ancestors(st, b) :
     \A d \in (Ancestors(st, a) \cap Ancestors(st, b)) \ {c} :
       c \notin Ancestors(st, d)}

\* no two stored commits have more than one lowest common ancestor
NonCrissCross(st) ==
  \A a, b \in DOMAIN st.recs : Cardinality(LowestCommon(st, a, b)) = 1

\* C3: in a three-way merge on a history that is not criss-cross, a key the
\* committing view has not changed since its base_commit is not reported as
\* a conflict and no merge function is looked up for it, and the merge
\* commit takes the head's pointer for it (none if the head has none); a
\* key changed only by the committing view takes that view's pointer.
C3_OneSidedChange ==
  [][\A v \in AllViews :
       LET kb == _load_keyset(store, views[v].entry.base)
           kh == _load_keyset(store, views[v].their)
           kl == _load_keyset(store, views[v].cur)
       IN Leaves(v, "tw_merge") /\ NonCrissCross(store) =>
            \A k \in Keys :
              /\ PtrOf(kl, k) = PtrOf(kb, k) =>
                   /\ k \notin views'[v].res.conflicts
                   /\ k \notin DOMAIN views'[v].lookups
                   /\ views'[v].pc = "tw_cas" =>
                        PtrOf(views'[v].mk, k) = PtrOf(kh, k)
              /\ PtrOf(kh, k) = PtrOf(kb, k) /\ PtrOf(kl, k) # PtrOf(kb, k) =>
                   /\ k \notin views'[v].res.conflicts
                   /\ k \notin DOMAIN views'[v].lookups
                   /\ views'[v].pc = "tw_cas" =>
                        PtrOf(views'[v].mk, k) = PtrOf(kl, k)
     ]_vars

\* view v is at a point of commit() where the head cannot be advanced: a
\* CAS that will fail, or a merge without a common ancestor
CannotAdvance(v) ==
  \/ /\ views[v].pc = "ff_cas"
     /\ store.head[views[v].branch] # views[v].base
  \/ /\ views[v].pc = "tw_cas"
     /\ store.head[views[v].branch] # views[v].their
  \/ /\ views[v].pc = "tw_merge"
     /\ _find_lca(store, views[v].cur, views[v].their) = NoCommit

\* C4: when commit() cannot advance the head (a CAS fails, or there is no
\* common ancestor), current_commit, base_commit, the keyset, meta and the
\* touch counter are what they were when commit() was entered, no step of
\* that call changes a branch head, and the outcome is merged=false under
\* on_conflict "abandon" and ConcurrencyError under "raise"; commit() has
\* these two outcomes in no other case.
C4_FailedCommitRestores ==
  [][\A v \in AllViews :
       /\ views'[v].pc # views[v].pc /\ CannotAdvance(v) =>
            /\ views'[v].pc = "idle"
            /\ views'[v].res.kind \in {"abandoned", "ConcurrencyError"}
            /\ views'[v].res.kind = "abandoned"
                 <=> views'[v].res.on_conflict = "abandon"
            /\ views'[v].cur = views[v].entry.cur
            /\ views'[v].base = views[v].entry.base
            /\ views'[v].keys = views[v].entry.keys
            /\ views'[v].meta = views[v].entry.meta
            /\ views'[v].touch = views[v].entry.touch
            /\ store'.head = store.head
       /\ (/\ views'[v].pc # views[v].pc
           /\ views[v].pc \in {"ff_cas", "tw_merge", "tw_cas"}
           /\ views'[v].res.kind \in {"abandoned", "ConcurrencyError"})
            => CannotAdvance(v)
       /\ (\/ Leaves(v, "tw_merge")
           \/ views[v].pc = "idle" /\ views'[v].pc \in {"ff_cas", "tw_merge"})
            => store'.head = store.head
     ]_vars

\* a commit() abandoned for want of a common ancestor: the head is a root
\* written by a rebase, the view is back on the commit it started from
C4_Witness ==
  \E v \in AllViews :
    /\ views[v].res.kind = "abandoned"
    /\ views[v].res.strategy = "three_way"
    /\ views[v].res.ours \in DOMAIN store.recs
    /\ views[v].res.theirs \in DOMAIN store.recs
    /\ _find_lca(store, views[v].res.ours, views[v].res.theirs) = NoCommit
    /\ views[v].cur = views[v].res.base0
    /\ views[v].base = views[v].res.base0

\* C6: every branch head names a commit whose records are in the backend.
C6_HeadsPresent ==
  \A b \in Branches :
    store.head[b] # NoCommit => store.head[b] \in DOMAIN store.recs

\* C7: every pointer in the keyset of a commit reachable from a branch head
\* resolves to a blob.
C7_PointersResolve ==
  \A c \in Reachable(store) :
    \A k \in DOMAIN _load_keyset(store, c) :
      GetBlob(store, _load_keyset(store, c)[k]) # 0

\* C8: the sweep of clean_orphans removes no record of a commit that is
\* reachable from a branch head (both when the sweep marked and when it
\* removes), and no blob stored under the id of such a commit.
C8_SweepKeepsReachable ==
  [][\A v \in AllViews :
       Leaves(v, "co_sweep") =>
         \A c \in views[v].reachable \cap Reachable(store) :
           /\ c \in DOMAIN store.recs =>
                c \in DOMAIN store'.recs /\ store'.recs[c] = store.recs[c]
           /\ \A p \in DOMAIN store.blobs :
                p[1] = c => p \in DOMAIN store'.blobs
     ]_vars

\* C9: the sweep of clean_orphans(min_age) removes no commit that was first
\* written less than min_age seconds before the sweep.
C9_AgeGate ==
  [][\A v \in AllViews :
       Leaves(v, "co_sweep") =>
         \A c \in DOMAIN store.recs :
           now - store.ctime[c] < views[v].min_age => c \in DOMAIN store'.recs
     ]_vars

\* C10: when a rebase installs its new root as the head, every protected
\* key of the rebasing view's keyset is in the keyset of that root, with a
\* blob, the same bytes as under the key's old pointer.
C10_ProtectedKept ==
  [][\A v \in AllViews :
       LET kn == _load_keyset(store', store'.head[views[v].branch])
       IN Leaves(v, "rb_cas") /\ views'[v].res.kind # "ConcurrencyError" =>
            \A k \in {x \in DOMAIN views[v].keys : _is_system_key(x)} :
              /\ k \in DOMAIN kn
              /\ GetBlob(store', kn[k]) # 0
              /\ GetBlob(store, views[v].keys[k]) # 0 =>
                   GetBlob(store', kn[k]) = GetBlob(store, views[v].keys[k])
     ]_vars

(***************************************************************************)
(* Size accounting                                                         *)
(***************************************************************************)
\* the sum of meta[k].size over the non-protected keys of commit c's keyset
UserTotal(rec) ==
  SumOver([k \in DOMAIN rec.meta |-> rec.meta[k].size],
          {k \in DOMAIN rec.keyset \cap DOMAIN rec.meta : ~_is_system_key(k)})

\* C12: the total_size stored with every commit is the sum of meta[k].size
\* over the non-protected keys of its keyset, so the bytes of protected
\* keys never count toward the total compared with high_water
C12_TotalExcludesProtected ==
  \A c \in DOMAIN store.recs : store.recs[c].total = UserTotal(store.recs[c])

\* C13: in every commit, the size of every meta entry is the byte length of
\* the blob the keyset pointer of that key resolves to
C13_MetaSizeIsBlobLength ==
  \A c \in DOMAIN store.recs :
    \A k \in DOMAIN store.recs[c].meta \cap DOMAIN store.recs[c].keyset :
      store.recs[c].keyset[k] \in DOMAIN store.blobs =>
        store.recs[c].meta[k].size = ByteLen(store.blobs[store.recs[c].keyset[k]])

\* the total_size recorded for the current commit of view v, 0 if none is
RecordedTotal(v) == _load_total_size(store', views'[v], 0)

\* commit() of GC view v returns normally at this step: merged, or
\* merged = false under on_conflict = "abandon"
CommitReturns(v) ==
  /\ views[v].gc
  /\ views'[v] # views[v]
  /\ views'[v].pc = "idle"
  /\ views'[v].res.op = "commit"
  /\ views'[v].res.kind \in {"merged", "abandoned"}

\* C11: after any commit() of a GC-enabled view that returns normally, the
\* total_size recorded for the view's current commit is at most high_water,
\* and at most low_water if that commit triggered a rebase
C11_GcBound ==
  [][\A v \in Writers :
       CommitReturns(v) =>
         /\ RecordedTotal(v) <= Waters.high_water
         /\ views[v].in_rebase => RecordedTotal(v) <= Waters.low_water]_vars

(***************************************************************************)
(* The common ancestor of two stored commits                               *)
(***************************************************************************)
\* C14: for all stored commits a and b, _find_lca(a, a) = a, and if a is an
\* ancestor of b through parent edges of any position then
\* _find_lca(a, b) = a
C14_LcaOfAncestor ==
  \A a, b \in DOMAIN store.recs :
    /\ _find_lca(store, a, a) = a
    /\ a \in Ancestors(store, b) => _find_lca(store, a, b) = a

(***************************************************************************)
(* Merge functions                                                         *)
(***************************************************************************)
\* the keys both sides of view v's merge have set, since their common
\* ancestor, to the same bytes
SameBytes(v) ==
  LET kl == _load_keyset(store, views[v].cur)
      kh == _load_keyset(store, views[v].their)
      kb == _load_keyset(store, _find_lca(store, views[v].cur, views[v].their))
  IN {k \in DOMAIN kl \cap DOMAIN kh :
        /\ kl[k] # PtrOf(kb, k)
        /\ kh[k] # PtrOf(kb, k)
        /\ GetBlob(store, kl[k]) # 0
        /\ GetBlob(store, kl[k]) = GetBlob(store, kh[k])}

\* C15: a key both sides of a three-way merge have set to identical bytes is
\* not a conflict and no merge function is looked up for it, whatever else
\* the two commits contain; when no other key is contested the merge goes
\* on to write the merge commit
C15_IdenticalBytes ==
  [][\A v \in Writers :
       LET H == views[v].their
           L == views[v].cur
           lca == _find_lca(store, L, H)
       IN Leaves(v, "tw_merge") /\ lca # NoCommit =>
            /\ \A k \in SameBytes(v) :
                 /\ k \notin views'[v].res.conflicts
                 /\ k \notin DOMAIN views'[v].lookups
            /\ NeedResolution(store, lca, L, H) \subseteq SameBytes(v) =>
                 views'[v].pc = "tw_cas"]_vars

\* the counter is the merge function in effect for key k in view v's merge:
\* registered with set_merge_fn, and the one looked up if k was contested
CounterInEffect(v, k) ==
  /\ k \in DOMAIN views[v].merge_fns
  /\ views[v].merge_fns[k] = "counter"
  /\ k \in DOMAIN views[v].lookups => views[v].lookups[k] = "counter"

\* the counter value commit c holds for key k, 0 if it has none
CounterAt(st, c, k) ==
  IF k \in DOMAIN _load_keyset(st, c)
  THEN decode(GetBlob(st, _load_keyset(st, c)[k])) ELSE 0

\* commit c is a child of commit base that writes key k
WritesOn(st, c, base, k) ==
  /\ _load_parents(st, c) = <<base>>
  /\ PtrOf(_load_keyset(st, c), k) = <<c, k>>

\* C16: with the counter in effect for key a, when the two writers' commits
\* both start from commit B, holding c0 (0 if B has no a), and write c_our
\* and c_their, the head after the second writer's commit has merged holds
\* c_our + c_their - c0
C16_CounterMerge ==
  [][\A v \in Writers :
       LET B == views[v].entry.base
           L == views[v].cur
           H == views[v].their
       IN /\ Leaves(v, "tw_cas")
          /\ views'[v].res.kind = "merged"
          /\ CounterInEffect(v, "a")
          /\ WritesOn(store, L, B, "a")
          /\ WritesOn(store, H, B, "a")
          => /\ "a" \in DOMAIN _load_keyset(store', store'.head["main"])
             /\ CounterAt(store', store'.head["main"], "a")
                  = CounterAt(store, L, "a") + CounterAt(store, H, "a")
                      - CounterAt(store, B, "a")]_vars

\* C17: when last-writer-wins is the function looked up for every contested
\* key (both sides modified it, or one removed it and the other modified
\* it), the merge completes and the merge commit holds for each of them
\* what the head holds: the head's bytes, or nothing if the head removed it
C17_LastWriterWins ==
  [][\A v \in Writers :
       LET H == views[v].their
           kh == _load_keyset(store, H)
           fn == views'[v].lookups
       IN /\ Leaves(v, "tw_merge")
          /\ _find_lca(store, views[v].cur, H) # NoCommit
          /\ DOMAIN fn # {}
          /\ \A k \in DOMAIN fn : fn[k] = "lww"
          => /\ views'[v].pc = "tw_cas"
             /\ \A k \in DOMAIN fn :
                  IF k \in DOMAIN kh
                  THEN /\ k \in DOMAIN views'[v].mk
                       /\ GetBlob(store', views'[v].mk[k])
                            = GetBlob(store, kh[k])
                  ELSE k \notin DOMAIN views'[v].mk]_vars

\* the first that exists of: the per-call merge_fns entry for k, the
\* function registered on the view for k, the per-call default_merge, the
\* default registered on the view; NoFn if none does
Chosen(v, k) ==
  LET call == views'[v].call
  IN IF k \in DOMAIN call.merge_fns THEN call.merge_fns[k]
     ELSE IF k \in DOMAIN views[v].merge_fns THEN views[v].merge_fns[k]
     ELSE IF call.default_merge # NoFn THEN call.default_merge
     ELSE views[v].default_merge

\* the function looked up for every contested key of view v's merge is the
\* one the order of C18 selects
LookedUpInOrder(v) ==
  \A k \in NeedResolution(store, _find_lca(store, views[v].cur, views[v].their),
                          views[v].cur, views[v].their) :
    /\ k \in DOMAIN views'[v].lookups
    /\ views'[v].lookups[k] = Chosen(v, k)
    /\ Chosen(v, k) = NoFn =>
         /\ k \in views'[v].res.conflicts
         /\ k \notin views'[v].res.merge_errors

\* C18 (as amended): for a contested key the merge function looked up is the
\* per-call merge_fns entry, else the one registered with set_merge_fn, else
\* the per-call default_merge, else the view's default; the key is a
\* conflict if none of the four exists, and otherwise only if the function
\* chosen raised, in which case it is in merge_errors too
C18_MergeFnPrecedence ==
  [][\A v \in Writers :
       Leaves(v, "tw_merge")
         /\ _find_lca(store, views[v].cur, views[v].their) # NoCommit =>
           /\ LookedUpInOrder(v)
           /\ \A k \in views'[v].res.conflicts :
                Chosen(v, k) = NoFn \/ k \in views'[v].res.merge_errors]_vars

\* C18 (as stated): the same order, and a contested key is a conflict only
\* if none of the four functions exists
C18_ConflictOnlyWithoutFn ==
  [][\A v \in Writers :
       Leaves(v, "tw_merge")
         /\ _find_lca(store, views[v].cur, views[v].their) # NoCommit =>
           /\ LookedUpInOrder(v)
           /\ \A k \in views'[v].res.conflicts : Chosen(v, k) = NoFn]_vars

\* a merge has gone on to its CAS with the per-call function for a, lww,
\* looked up although the counter is registered for a on the view
C18_Witness ==
  \E v \in Writers :
    /\ views[v].pc = "tw_cas"
    /\ "a" \in DOMAIN views[v].call.merge_fns
    /\ views[v].call.merge_fns["a"] = "lww"
    /\ "a" \in DOMAIN views[v].merge_fns
    /\ views[v].merge_fns["a"] = "counter"
    /\ views[v].lookups = [k \in {"a"} |-> "lww"]

(***************************************************************************)
(* checkout and refresh                                                    *)
(***************************************************************************)
\* C19: the view v3 that checkout(id) returns has the keyset of commit id
\* as its keyset, with current_commit = base_commit = id, and no step of a
\* call made through it changes a branch head
C19_CheckoutNeverMovesHead ==
  [][/\ ~views["v3"].open /\ views'["v3"].open =>
          \E v \in Viewers :
            /\ views'[v].res.op = "checkout"
            /\ views'["v3"].cur = views'[v].res.commit
            /\ views'["v3"].base = views'[v].res.commit
            /\ views'["v3"].keys = _load_keyset(store, views'[v].res.commit)
     /\ views["v3"].open /\ views'["v3"] # views["v3"] =>
          store'.head = store.head]_vars

\* C20: refresh() sets current_commit and base_commit to the branch head
\* stored in the backend and reloads keyset, meta and touch counter from
\* that commit, whatever local commit the view held, and writes nothing; a
\* commit() that follows a refresh with the head still the one loaded takes
\* the fast-forward path, and its CAS, with the head still unchanged,
\* succeeds: merged, strategy fast_forward, the new commit the head
C20_RefreshThenCommit ==
  [][\A v \in AllViews :
       LET head == store.head[views[v].branch]
       IN /\ (/\ views[v].pc = "idle"
              /\ views'[v] # views[v]
              /\ views'[v].res.op = "refresh"
              /\ views'[v].res.kind = "ok")
             => /\ views'[v].cur = head
                /\ views'[v].base = head
                /\ views'[v].keys = _load_keyset(store, head)
                /\ views'[v].meta = LoadMeta(store, head)
                /\ views'[v].touch = TouchCounterOf(LoadMeta(store, head))
                /\ views'[v].pc = "idle"
                /\ store' = store
          /\ (/\ views[v].pc = "idle"
              /\ views[v].res.op = "refresh"
              /\ views[v].res.kind = "ok"
              /\ views'[v].pc \in {"ff_cas", "tw_merge"}
              /\ head = views[v].base)
             => /\ views'[v].pc = "ff_cas"
                /\ _load_parents(store', views'[v].cur) = <<head>>
          /\ (Leaves(v, "ff_cas") /\ head = views[v].base)
             => /\ views'[v].res.kind = "merged"
                /\ views'[v].res.strategy = "fast_forward"
                /\ views'[v].res.commit = views[v].cur
                /\ store'.head[views[v].branch] = views[v].cur
                /\ views'[v].base = views[v].cur]_vars

\* v1 lost a fast-forward CAS (its local commit L, a child of another
\* commit than the present base, is not in the head's history), then
\* refreshed onto the commit B that v3 had written, and its next commit
\* fast-forwarded from B
C20_Witness ==
  \E L \in DOMAIN store.recs :
    LET r == views["v1"].res
    IN /\ PtrOf(_load_keyset(store, L), "a") = <<L, "a">>
       /\ L \notin Ancestors(store, store.head["main"])
       /\ r.op = "commit" /\ r.kind = "merged" /\ r.strategy = "fast_forward"
       /\ store.head["main"] = r.commit
       /\ _load_parents(store, r.commit) = <<r.base0>>
       /\ PtrOf(_load_keyset(store, r.base0), "b") = <<r.base0, "b">>
       /\ _load_parents(store, L) # <<r.base0>>

(***************************************************************************)
(* Rebase, commit records, meta, branches, diff, the backend CAS           *)
(***************************************************************************)
\* the in-memory state of a view: commit, base, keyset, meta, touch counter
InMemory(vw) == [s |-> _snapshot_state(vw), base |-> vw.base]

\* view v is between the batch write of a rebase and its return
InRebase(v) == views[v].pc \in {"rb_cas", "rb_delete", "co_mark", "co_sweep"}

\* C21: rebase() moves the branch head only in its CAS step, from the
\* base_commit of the view to the new root; when the head is not
\* base_commit the call raises ConcurrencyError, goes on to no removal and
\* no sweep, leaves the head and the in-memory state of the view as they
\* were, and its batch write has changed no record and no blob that the
\* store held
C21_RebaseCas ==
  [][\A v \in AllViews :
       /\ (views'[v].pc = "rb_cas" /\ views[v].pc # "rb_cas")
            => store'.head = store.head
       /\ (InRebase(v) /\ views[v].pc # "rb_cas" /\ views'[v] # views[v])
            => store'.head = store.head
       /\ Leaves(v, "rb_cas") =>
            IF store.head[views[v].branch] = views[v].base
            THEN store'.head = [store.head EXCEPT ![views[v].branch] =
                                                     views[v].mh]
            ELSE /\ views'[v].pc = "idle"
                 /\ views'[v].res.kind = "ConcurrencyError"
                 /\ store' = store
                 /\ InMemory(views'[v]) = InMemory(views[v])
                 /\ ~views[v].rewrote]_vars

\* view v is at the CAS of a rebase and the head is still its base_commit
RebaseWins(v) ==
  /\ Leaves(v, "rb_cas")
  /\ store.head[views[v].branch] = views[v].base

\* C22: the CAS of a performed rebase installs as head a commit without
\* parents, whose history is that commit alone; its keyset is exactly
\* kept_keys, each key under the pointer <<new id, key>>, which holds the
\* bytes the key had in the commit rebased; kept_keys and dropped_keys are
\* disjoint and together the keys of the commit rebased
C22_RebaseRoot ==
  [][\A v \in AllViews :
       RebaseWins(v) =>
         /\ store'.head[views[v].branch] = views[v].mh
         /\ views[v].mh \in DOMAIN store'.recs
         /\ _load_parents(store', views[v].mh) = <<>>
         /\ HistoryAll(store', {}, <<views[v].mh>>) = {views[v].mh}
         /\ DOMAIN _load_keyset(store', views[v].mh) = views[v].kept
         /\ \A k \in views[v].kept \cap DOMAIN views[v].keys :
              /\ PtrOf(_load_keyset(store', views[v].mh), k)
                   = <<views[v].mh, k>>
              /\ GetBlob(store, <<views[v].mh, k>>) # 0
              /\ GetBlob(store, <<views[v].mh, k>>)
                   = GetBlob(store, views[v].keys[k])
         /\ views[v].kept \cap views[v].dropped = {}
         /\ views[v].kept \cup views[v].dropped = DOMAIN views[v].keys]_vars

\* the meta entries of the non-protected keys of a view
UserMeta(vw) == Restrict(vw.meta, {k \in DOMAIN vw.meta : ~_is_system_key(k)})

\* key d comes no later than key r in the order (last_touch ascending,
\* size descending)
NoWarmer(um, d, r) ==
  \/ um[d].last_touch < um[r].last_touch
  \/ um[d].last_touch = um[r].last_touch /\ um[d].size >= um[r].size

\* the total of the sizes of the keys S
SizeOf(um, S) == SumOver([k \in S |-> um[k].size], S)

\* C23: when maybe_rebase goes on to rebase, the keys dropped are a prefix
\* of the non-protected keys in the order (last_touch ascending, size
\* descending), and the shortest one that brings the total of the sizes of
\* the remaining keys to low_water or below
C23_DropsColdestFirst ==
  [][\A v \in AllViews :
       (views[v].pc = "maybe_rebase" /\ views'[v].pc = "rb_cas") =>
         /\ views'[v].dropped \subseteq DOMAIN UserMeta(views[v])
         /\ \A d \in views'[v].dropped :
              \A r \in DOMAIN UserMeta(views[v]) \ views'[v].dropped :
                NoWarmer(UserMeta(views[v]), d, r)
         /\ \/ SizeOf(UserMeta(views[v]),
                      DOMAIN UserMeta(views[v]) \ views'[v].dropped)
                 <= Waters.low_water
            \/ views'[v].dropped = DOMAIN UserMeta(views[v])
         /\ views'[v].dropped # {} =>
              \E d \in views'[v].dropped :
                /\ \A e \in views'[v].dropped :
                     NoWarmer(UserMeta(views[v]), e, d)
                /\ SizeOf(UserMeta(views[v]),
                          (DOMAIN UserMeta(views[v]) \ views'[v].dropped)
                            \cup {d}) > Waters.low_water]_vars

\* a rebase under the water marks has dropped the larger of two keys
\* touched last at the same time and retained the smaller
C23_Witness ==
  \E v \in AllViews :
    /\ views[v].pc = "rb_cas"
    /\ views[v].res.op = "commit"
    /\ \E r \in DOMAIN UserMeta(views[v]) \ views[v].dropped :
         \E d \in views[v].dropped :
           /\ views[v].meta[d].last_touch = views[v].meta[r].last_touch
           /\ views[v].meta[d].size > views[v].meta[r].size

\* some view ends an orphan sweep in this step
Sweeps == \E v \in AllViews : Leaves(v, "co_sweep")

\* some view removes the blobs of the keys its rebase dropped in this step,
\* and p is one of them
RebaseDrops(p) ==
  \E v \in AllViews :
    /\ views[v].pc \in {"rb_cas", "rb_delete"}
    /\ views'[v].pc \notin {"rb_cas", "rb_delete"}
    /\ p \in ToDelete(views[v])

\* C24: no step changes the records of a stored commit or a stored blob;
\* records go away only in an orphan sweep, blobs only in an orphan sweep
\* or as blobs of the keys a rebase dropped
C24_CommitsImmutable ==
  [][(\A c \in DOMAIN store.recs :
        IF c \in DOMAIN store'.recs THEN store'.recs[c] = store.recs[c]
        ELSE Sweeps)
     /\ (\A p \in DOMAIN store.blobs :
           IF p \in DOMAIN store'.blobs THEN store'.blobs[p] = store.blobs[p]
           ELSE Sweeps \/ RebaseDrops(p))]_vars

\* view v writes its local commit in this step (commit() up to the batch
\* write)
WritesLocal(v) ==
  /\ views[v].pc = "idle"
  /\ views'[v].pc \in {"ff_cas", "tw_merge"}

\* the keys the local commit of view vw holds under its own id
Written(vw) == {k \in DOMAIN vw.keys : vw.keys[k] = <<vw.cur, k>>}

\* C25: in the local commit that commit() writes, the meta entry of an
\* updated key has the length of the new blob as size; for a key that had
\* an entry it keeps created_at and has a last_touch larger than before
\* and larger than that of every key not written; for a key without one
\* created_at is the current time and last_touch a new value of the touch
\* counter
C25_MetaOnUpdate ==
  [][\A v \in AllViews :
       WritesLocal(v) =>
         \A k \in Written(views'[v]) :
           /\ k \in DOMAIN views'[v].meta
           /\ views'[v].meta[k].size
                = ByteLen(GetBlob(store', views'[v].keys[k]))
           /\ IF k \in DOMAIN views[v].meta
              THEN /\ views'[v].meta[k].created_at
                        = views[v].meta[k].created_at
                   /\ views'[v].meta[k].last_touch
                        > views[v].meta[k].last_touch
                   /\ \A j \in DOMAIN views'[v].meta \ Written(views'[v]) :
                        views'[v].meta[k].last_touch
                          > views'[v].meta[j].last_touch
              ELSE /\ views'[v].meta[k].created_at = now
                   /\ views'[v].meta[k].last_touch > views[v].touch
                   /\ views'[v].meta[k].last_touch <= views'[v].touch]_vars

\* view v returns from a call of create_branch that raised before its CAS
RaisesUnknown(v) ==
  /\ views[v].pc = "idle"
  /\ views'[v].pc = "idle"
  /\ views'[v] # views[v]
  /\ views'[v].res.op = "create_branch"

\* C26: create_branch raises ValueError before its CAS exactly for an id
\* that no stored commit has, and then nothing has changed; its CAS
\* succeeds exactly when the branch has no head, and then the head is the
\* target, no other head and no commit record has changed, and the view
\* returned, v3, is on the new branch with current_commit = base_commit =
\* target; when the branch has a head the call raises ValueError and
\* nothing has changed.  A head that exists is never absent again, so of
\* the calls for one new name exactly one succeeds
C26_CreateBranch ==
  [][\A v \in AllViews :
       /\ RaisesUnknown(v) =>
            /\ views'[v].res.kind = "ValueError"
            /\ views'[v].res.commit \notin DOMAIN store.recs
            /\ store' = store
            /\ InMemory(views'[v]) = InMemory(views[v])
            /\ views'["v3"] = views["v3"]
       /\ (views[v].pc = "idle" /\ views'[v].pc = "cb_cas") =>
            /\ views'[v].target \in DOMAIN store.recs \cup {views[v].cur}
            /\ store' = store
       /\ Leaves(v, "cb_cas") =>
            /\ InMemory(views'[v]) = InMemory(views[v])
            /\ IF store.head[views[v].name] = NoCommit
               THEN /\ views'[v].res.kind = "ok"
                    /\ store'.head = [store.head EXCEPT ![views[v].name] =
                                                           views[v].target]
                    /\ store'.recs = store.recs
                    /\ store'.blobs = store.blobs
                    /\ views'["v3"].open
                    /\ views'["v3"].branch = views[v].name
                    /\ views'["v3"].cur = views[v].target
                    /\ views'["v3"].base = views[v].target
               ELSE /\ views'[v].res.kind = "ValueError"
                    /\ store' = store
                    /\ views'["v3"] = views["v3"]
       /\ \A b \in Branches :
            store.head[b] # NoCommit => store'.head[b] # NoCommit]_vars

\* two calls of create_branch for dev overlap: one has returned the view
\* and the head of dev is its target, the other is at its CAS with another
\* target
C26_Witness ==
  \E v, w \in AllViews :
    /\ views[v].pc = "idle"
    /\ views[v].res.op = "create_branch"
    /\ views[v].res.kind = "ok"
    /\ store.head["dev"] = views[v].res.commit
    /\ views[w].pc = "cb_cas"
    /\ views[w].name = "dev"
    /\ views[w].target # store.head["dev"]

\* view v takes a step of commit()
CommitStep(v) ==
  /\ views'[v] # views[v]
  /\ \/ views[v].pc \in {"ff_cas", "tw_merge", "tw_cas"}
     \/ views[v].pc = "idle" /\ views'[v].pc \in {"ff_cas", "tw_merge"}
     \/ views[v].pc = "idle" /\ views'[v].res.op = "commit"

\* what is read through a view: its keys and the bytes of each in store st
ReadThrough(st, vw) == [k \in DOMAIN vw.keys |-> GetBlob(st, vw.keys[k])]

\* what is read at commit c: its keys and the bytes of each in store st
ReadAt(st, c) ==
  [k \in DOMAIN _load_keyset(st, c) |-> GetBlob(st, _load_keyset(st, c)[k])]

\* C27: a step of commit() taken by a plain view changes the head of no
\* branch but the view's own, leaves every view on another branch as it
\* is, with the same keys and the same bytes read through it, and leaves
\* the keys and bytes read at the head of every other branch as they are
C27_BranchesIsolated ==
  [][\A v \in AllViews :
       (CommitStep(v) /\ ~views[v].gc) =>
         /\ \A b \in Branches \ {views[v].branch} :
              /\ store'.head[b] = store.head[b]
              /\ store.head[b] # NoCommit =>
                   ReadAt(store', store.head[b]) = ReadAt(store, store.head[b])
         /\ \A w \in AllViews :
              (views[w].open /\ views[w].branch # views[v].branch) =>
                /\ views'[w] = views[w]
                /\ ReadThrough(store', views[w])
                     = ReadThrough(store, views[w])]_vars

\* dev was forked from the head of main and both branches have moved on:
\* a is read on main and not on dev, b on dev and not on main
C27_Witness ==
  /\ store.head["dev"] # NoCommit
  /\ store.head["main"] # store.head["dev"]
  /\ views["v3"].res.op = "commit"
  /\ views["v3"].res.kind = "merged"
  /\ views["v3"].branch = "dev"
  /\ DOMAIN ReadAt(store, store.head["main"]) = {"a"}
  /\ DOMAIN ReadAt(store, store.head["dev"]) = {"b"}
  /\ \E c \in DOMAIN store.recs :
       /\ <<c>> = _load_parents(store, store.head["main"])
       /\ <<c>> = _load_parents(store, store.head["dev"])

NoDiff == [added |-> {}, removed |-> {}, modified |-> {}]

\* C28: diff(a, a) is empty for every commit id a, stored or not; and for
\* the local commit b that commit(updates, removals) writes on commit a,
\* diff(a, b) has added = the updated keys not in a, removed = the
\* removals in a, modified = the updated keys in a, so that a key carried
\* forward, which keeps its pointer, is in none of them
C28_DiffOfCommit ==
  /\ [](\A a \in 0..(Len(store.hashes) + 1) : diff(store, a, a) = NoDiff)
  /\ [][\A v \in AllViews :
          WritesLocal(v) =>
            /\ diff(store', views[v].cur, views'[v].cur).added
                 = views'[v].entry.updated \ DOMAIN views[v].keys
            /\ diff(store', views[v].cur, views'[v].cur).removed
                 = views'[v].entry.removals \cap DOMAIN views[v].keys
            /\ diff(store', views[v].cur, views'[v].cur).modified
                 = views'[v].entry.updated \cap DOMAIN views[v].keys
            /\ \A k \in DOMAIN views[v].keys
                       \ (views'[v].entry.updated
                            \cup views'[v].entry.removals) :
                 /\ PtrOf(_load_keyset(store', views'[v].cur), k)
                      = views[v].keys[k]
                 /\ k \notin diff(store', views[v].cur,
                                  views'[v].cur).modified]_vars


\* C29: in either Memory variant a cas is atomic on its key: at most one
\* thread is between the comparison of a cas and its write; a cas returns
\* True in a step in which the key still holds the expected value, which
\* the step replaces by the new one; a cas returns False only when the key
\* holds another value than the expected one, and writes nothing
C29_CasAtomic ==
  /\ [](Cardinality({t \in AllViews : views[t].pc = "cas_write"}) <= 1)
  /\ [][\A t \in AllViews :
          ((views[t].pc = "cas_write" /\ views'[t].pc = "idle") =>
             (/\ views'[t].ret = "True"
              /\ MemoryGet(store.memory, views[t].key) = views[t].expected
              /\ MemoryGet(store'.memory, views[t].key) = views[t].value))
          /\
          ((views'[t].calls # views[t].calls /\ views'[t].ret = "False") =>
             (/\ MemoryGet(store.memory, views'[t].key) # views'[t].expected
              /\ store'.memory = store.memory))]_vars

\* view v leaves commit() with ConcurrencyError
RaisesConcurrency(v) ==
  /\ views[v].pc # "idle"
  /\ views'[v].pc = "idle"
  /\ views'[v].res.op = "commit"
  /\ views'[v].res.kind = "ConcurrencyError"

\* C30: a commit() that raises ConcurrencyError has installed no head: the
\* call is not one whose own CAS had succeeded (its result, held while the
\* automatic rebase of a GC-enabled view runs, is not merged by
\* fast-forward or three-way merge), and the commit the view stands on when
\* it raises is not the head of its branch
C30_ErrorMeansNotApplied ==
  [][\A v \in AllViews :
       RaisesConcurrency(v) =>
         /\ ~(views[v].res.kind = "merged" /\ views[v].res.strategy # "no_op")
         /\ views'[v].cur # store'.head[views[v].branch]]_vars

\* C31: the commit named by the last commit() of a view that returned
\* merged is the head of the view's branch or one of its ancestors, in
\* every state, whatever views are constructed meanwhile
C31_MergedStaysInHistory ==
  \A v \in AllViews :
    (views[v].open /\ views[v].res.op = "commit" /\ views[v].res.kind = "merged")
      => views[v].res.commit \in Ancestors(store, store.head[views[v].branch])

\* view v leaves commit() with a result that has merged = true
ReturnsMerged(v) ==
  /\ views'[v] # views[v]
  /\ views'[v].pc = "idle"
  /\ views'[v].res.op = "commit"
  /\ views'[v].res.kind = "merged"

\* C32: when commit() of a plain view returns merged = true, the view's
\* current_commit is its base_commit and is the commit the result names;
\* that commit is in the history of the branch head, and it is the head
\* itself when the call installed it by fast-forward or three-way merge
C32_MergedIsPublished ==
  [][\A v \in AllViews :
       ReturnsMerged(v) =>
         /\ views'[v].cur = views'[v].base
         /\ views'[v].res.commit = views'[v].cur
         /\ views'[v].res.commit \in Ancestors(store', store'.head[views[v].branch])
         /\ views'[v].res.strategy # "no_op" => views'[v].res.commit = store'.head[views[v].branch]]_vars

\* view v is at the merge of a commit() whose head is a commit without
\* parents other than the view's base: the root a rebase installed after
\* the view loaded its base
MergesOntoRoot(v) ==
  /\ views[v].pc = "tw_merge"
  /\ views[v].entry.head # views[v].entry.base
  /\ _load_parents(store, views[v].entry.head) = <<>>

\* C33: the merge of a commit() whose base predates a rebase of the branch
\* finds no common ancestor: the call fails per on_conflict, the view is
\* back in the state it entered with and the store, head included, is as
\* it was
C33_StaleCommitFails ==
  [][\A v \in AllViews :
       (MergesOntoRoot(v) /\ views'[v] # views[v]) =>
         /\ views'[v].pc = "idle"
         /\ views'[v].res.kind \in {"ConcurrencyError", "abandoned"}
         /\ _snapshot_state(views'[v]) = views[v].saved
         /\ views'[v].base = views[v].entry.base
         /\ store' = store]_vars

\* C34: the step that ends an orphan sweep removes every commit that was
\* unreachable from all branch heads when the sweep marked and still is,
\* and that was created more than min_age before: its records are gone and
\* no blob is left under its id
C34_SweepRemovesOrphans ==
  [][\A v \in AllViews :
       Leaves(v, "co_sweep") =>
         \A c \in DOMAIN store.recs :
           (/\ c \notin views[v].reachable
            /\ c \notin Reachable(store)
            /\ store.ctime[c] < now - views[v].min_age)
             => (/\ c \notin DOMAIN store'.recs
                 /\ \A p \in DOMAIN store'.blobs : p[1] # c)]_vars

\* C35: for every two stored commits _find_lca returns a commit that is an
\* ancestor-or-self of both, or none when they have no common ancestor
C35_LcaIsCommonAncestor ==
  \A a, b \in DOMAIN store.recs :
    \E r \in {_find_lca(store, a, b)} :
      IF r = NoCommit
      THEN Ancestors(store, a) \cap Ancestors(store, b) = {}
      ELSE r \in Ancestors(store, a) \cap Ancestors(store, b)

\* two stored commits neither of which is an ancestor of the other have a
\* common ancestor, and two others have none
C35_Witness ==
  /\ \E a, b \in DOMAIN store.recs :
       /\ a \notin Ancestors(store, b)
       /\ b \notin Ancestors(store, a)
       /\ _find_lca(store, a, b) \in (Ancestors(store, a) \cap Ancestors(store, b)) \ {a, b}
  /\ \E a, b \in DOMAIN store.recs : _find_lca(store, a, b) = NoCommit

\* C36: in every state of an open view that is in no call, touch_counter
\* is at least the last_touch of every entry of the view's meta
C36_TouchCounterBounds ==
  \A v \in AllViews :
    (views[v].open /\ views[v].pc = "idle") =>
      \A k \in DOMAIN views[v].meta : views[v].meta[k].last_touch <= views[v].touch

\* the commits a sequence yields
Yielded(h) == {h[i] : i \in 1..Len(h)}

\* C37: for every stored commit, the linear history starts with it, goes
\* from each commit to its first parent and ends at a commit without
\* parents; the all-parents history yields no commit twice and yields
\* exactly the commits reachable through parent edges: the start, every
\* parent of a commit yielded, and nothing that is not the start or such a
\* parent; and when the CAS of a three-way merge succeeds, the linear
\* history of the new head goes from it to the head it replaced
C37_History ==
  /\ [](\A start \in DOMAIN store.recs :
          /\ \E h \in {history(store, start, FALSE)} :
               /\ h[1] = start
               /\ \A i \in 1..(Len(h) - 1) : h[i + 1] = Head(_load_parents(store, h[i]))
               /\ _load_parents(store, h[Len(h)]) = <<>>
          /\ \E h \in {history(store, start, TRUE)} :
               /\ Cardinality(Yielded(h)) = Len(h)
               /\ start \in Yielded(h)
               /\ \A c \in Yielded(h) : Yielded(_load_parents(store, c)) \subseteq Yielded(h)
               /\ \A c \in Yielded(h) \ {start} : \E d \in Yielded(h) : c \in Yielded(_load_parents(store, d)))
  /\ [][\A v \in AllViews :
          (views[v].pc = "tw_cas" /\ store'.head[views[v].branch] # store.head[views[v].branch]) =>
            \E h \in {history(store', store'.head[views[v].branch], FALSE)} :
              Len(h) >= 2 /\ h[2] = store.head[views[v].branch]]_vars

\* a head that is a merge commit whose all-parents history yields commits
\* the linear one does not
C37_Witness ==
  /\ Len(_load_parents(store, store.head["main"])) = 2
  /\ Len(history(store, store.head["main"], FALSE)) >= 3
  /\ Len(history(store, store.head["main"], TRUE)) > Len(history(store, store.head["main"], FALSE))

\* C38: whenever no caller is inside a call on the Composite, every key a
\* cache tier holds is in the last tier with the same value, so get
\* returns what the last tier holds; and a cas that fails changes no tier
C38_CachesAgree ==
  /\ []((\A t \in AllViews : views[t].pc = "idle") =>
          /\ \A i \in 1..(Len(store.tiers) - 1) :
               \A k \in DOMAIN store.tiers[i] :
                 k \in DOMAIN store.tiers[Len(store.tiers)] /\ store.tiers[i][k] = store.tiers[Len(store.tiers)][k]
          /\ CompositeGet(store.tiers, "a") = MemoryGet(store.tiers[Len(store.tiers)], "a"))
  /\ [][\A t \in AllViews :
          (views'[t].calls # views[t].calls /\ views'[t].ret = "False") => store' = store]_vars

StagedCommitStep(s) == views'[views[s].versioned] # views[views[s].versioned]

\* C40: Staged.commit hands every staged update, encoded, and every staged
\* removal to the commit() of its Versioned; the buffer does not change
\* while that call runs, is empty once it has returned merged, and is what
\* it was once it has returned abandoned or raised
C40_StagedCommit ==
  [][\A s \in AllViews \ Writers :
       /\ (StagedCommitStep(s) /\ views'[views[s].versioned].pc \in {"ff_cas", "tw_merge"}) =>
            /\ Ready(views[views[s].versioned])
            /\ views'[views[s].versioned].entry.updated = DOMAIN views[s].updates
            /\ views'[views[s].versioned].entry.removals = views[s].removals
            /\ \A key \in DOMAIN views[s].updates :
                 GetBlob(store', views'[views[s].versioned].keys[key]) = Encoder(views[s].updates[key])
            /\ views[s].removals \cap DOMAIN views'[views[s].versioned].keys = {}
       /\ (StagedCommitStep(s) /\ views'[views[s].versioned].pc # "idle") => views'[s] = views[s]
       /\ (StagedCommitStep(s) /\ views'[views[s].versioned].pc = "idle") =>
            IF views'[views[s].versioned].res.kind = "merged"
            THEN views'[s].updates = EmptyFn /\ views'[s].removals = {}
            ELSE /\ views'[s] = views[s]
                 /\ views'[views[s].versioned].res.kind \in {"abandoned", "MergeConflict", "ConcurrencyError"}]_vars

\* a Staged.commit has raised MergeConflict and the buffer still holds
\* an update and a removal
C40_Witness ==
  /\ views["v1"].pc = "idle" /\ views["v1"].res.kind = "MergeConflict"
  /\ views["v3"].updates # EmptyFn /\ views["v3"].removals # {}
====
